---- MODULE Spec2Model ----
(***************************************************************************)
(* Model of packages/kbn-router-to-openapispec/src/generate_oas.ts: the    *)
(* OpenAPI document generator (generateOpenApiDocument, processRouter,     *)
(* processVersionedRouter, assignToPathsObject, getOperationId).           *)
(*                                                                         *)
(* Representation.  A JS string is a sequence of one-character strings.    *)
(* A JS object used as a map is a function whose DOMAIN is its key set.    *)
(* An optional value (T | undefined) is a set with at most one element:    *)
(* {} is undefined, {x} is x.  A validation schema is an opaque token      *)
(* <<kind, tag>>.                                                          *)
(***************************************************************************)
EXTENDS Integers, Sequences, FiniteSets, TLC

\* ------------------------------------------------------------------ bounds
\* routes handed out by all routers of one generateOpenApiDocument call
MaxRoutes == 3
\* routers (unversioned and versioned together) of one call
MaxRouters == 2
\* handlers (versions) of one versioned route
MaxHandlers == 3
\* calls of the operation id allocator driven directly (SpecAlloc)
MaxCalls == 12
MaxGenerations == 2
MaxViews == 2
MaxRegistries == 2
\* the page size of the legacy states queries, and the pages of a database
LEGACY_STATES_QUERY_SIZE == 2
MaxPages == 2
\* the shards of a scripted metric, the documents it visits and their timestamps
MaxShards == 2
MaxDocs == 3
MaxTimestamp == 2
\* the runs of the finished checks a chart is followed through
MaxSequences == 2

\* ------------------------------------------------------------ JS strings
Undefined == {}
Some(x) == {x}
The(m) == CHOOSE x \in m : TRUE

EmptyObject == [k \in {} |-> {}]

Digits == <<"0", "1", "2", "3", "4", "5", "6", "7", "8", "9">>

\* Number.prototype.toString() of a non-negative integer
RECURSIVE NumberToString(_)
NumberToString(n) ==
  IF n < 10 THEN <<Digits[n + 1]>>
  ELSE NumberToString(n \div 10) \o <<Digits[(n % 10) + 1]>>

\* String.prototype.startsWith
StartsWith(s, p) ==
  /\ Len(p) <= Len(s)
  /\ SubSeq(s, 1, Len(p)) = p

\* String.prototype.replace(c, '') with a string pattern: only the FIRST
\* occurrence of c is removed.
ReplaceFirst(s, c) ==
  IF \E i \in 1..Len(s) : s[i] = c
  THEN LET i == CHOOSE j \in 1..Len(s) :
                  /\ s[j] = c
                  /\ \A k \in 1..(j - 1) : s[k] # c
       IN SubSeq(s, 1, i - 1) \o SubSeq(s, i + 1, Len(s))
  ELSE s

\* { ...a, ...b } and Object.assign(a, b): every key of b replaces a's value
ObjectAssign(a, b) ==
  [k \in (DOMAIN a) \cup (DOMAIN b) |-> IF k \in DOMAIN b THEN b[k] ELSE a[k]]

\* -------------------------------------------------- operation id allocator
\* operationIdCounters.get(name) ?? 0
CounterOf(counters, name) ==
  IF name \in DOMAIN counters THEN counters[name] ELSE 0

\* getOperationId with a forgotten '#': name + count
GetOperationId_NoSeparator(counters, name) ==
  [id |-> name \o NumberToString(CounterOf(counters, name)),
   counters |-> ObjectAssign(counters, [k \in {name} |-> CounterOf(counters, name) + 1])]

\* getOperationId that never stores the incremented counter
GetOperationId_NoIncrement(counters, name) ==
  [id |-> name \o <<"#">> \o NumberToString(CounterOf(counters, name)),
   counters |-> ObjectAssign(counters, [k \in {name} |-> CounterOf(counters, name)])]

\* getOperationId that counts per normalized path: the name without its
\* first '?'
GetOperationId_PerKey(counters, name) ==
  LET key == ReplaceFirst(name, "?")
  IN [id |-> name \o <<"#">> \o NumberToString(CounterOf(counters, key)),
      counters |-> ObjectAssign(counters,
                     [k \in {key} |-> CounterOf(counters, key) + 1])]

\* getOperationId(name): the aliased name and the counters map after the call
GetOperationId(counters, name) ==
  [id |-> name \o <<"#">> \o NumberToString(CounterOf(counters, name)),
   counters |-> ObjectAssign(counters, [k \in {name} |-> CounterOf(counters, name) + 1])]

\* ------------------------------------------------------ schema converters
\* An unsupported schema makes a converter throw.
BadSchema == <<"bad", 0>>

\* e.message of the error a converter throws
ConversionError == <<"unsupported schema">>

\* convert(schema) throws on an unsupported schema; undefined is accepted
ConvertThrows(maybeSchema) == BadSchema \in maybeSchema

\* convert(schema): the OpenAPI schema object of a schema (or of undefined)
Convert(maybeSchema) ==
  IF maybeSchema = Undefined THEN [type |-> "any", of |-> Undefined]
  ELSE [type |-> "object", of |-> maybeSchema]

\* convertPathParameters(params, pathParams), called with a defined schema
ConvertPathParameters(schema) ==
  <<[name |-> schema, in |-> "path", required |-> TRUE]>>

\* convertQuery(query), called with a defined schema
ConvertQuery(schema) ==
  <<[name |-> schema, in |-> "query", required |-> FALSE]>>

\* getJSONContentString()
GetJSONContentString == <<"application/json">>

\* getVersionedContentString(version)
GetVersionedContentString(version) ==
  <<"application/json; Elastic-Api-Version=">> \o NumberToString(version)

\* route.options.description ?? 'No description'
DescriptionOf(route) ==
  IF route.description = Undefined THEN <<"No description">>
  ELSE The(route.description)

\* a validation registered as a function whose call throws
ThrowingValidation == [throws |-> TRUE]

\* e.message of the error that function throws
ExtractionError == <<"validation threw">>

\* extracting the validation schemas of a route, or of a versioned route's
\* handler, throws
ExtractValidationSchemaThrows(registered) ==
  ThrowingValidation \in registered.validate

\* extractValidationSchemaFromRoute(route)
ExtractValidationSchemaFromRoute(route) == route.validate

\* extractValidationSchemaFromVersionedHandler(handler)
ExtractValidationSchemaFromVersionedHandler(handler) == handler.validate

\* versionHandlerResolvers.newest(versions): undefined for no version
Newest(versions) ==
  IF versions = {} THEN Undefined
  ELSE Some(CHOOSE v \in versions : \A w \in versions : w <= v)

\* ----------------------------------------------------------- shared steps
\* prepareRoutes that keeps every route
PrepareRoutes_KeepAll(rs, pathStartsWith) == rs

\* prepareRoutes(routes, pathStartsWith): an undefined or empty pathStartsWith
\* is falsy and keeps every route
PrepareRoutes(rs, pathStartsWith) ==
  LET Keep(r) == \/ pathStartsWith = Undefined
                 \/ The(pathStartsWith) = <<>>
                 \/ StartsWith(r.path, The(pathStartsWith))
  IN SelectSeq(rs, Keep)

\* the key assignToPathsObject files a route under: path.replace('?', '')
PathName(path) == ReplaceFirst(path, "?")

\* assignToPathsObject that keys the map by the raw path
AssignToPathsObject_RawKey(ps, path, pathObject) ==
  ObjectAssign(ps, [k \in {path} |->
    ObjectAssign(IF path \in DOMAIN ps THEN ps[path] ELSE EmptyObject, pathObject)])

\* assignToPathsObject that lets the operations already stored win
AssignToPathsObject_KeepFirst(ps, path, pathObject) ==
  LET pathName == PathName(path)
      old == IF pathName \in DOMAIN ps THEN ps[pathName] ELSE EmptyObject
  IN ObjectAssign(ps, [k \in {pathName} |-> ObjectAssign(pathObject, old)])

\* assignToPathsObject that replaces the path-item already stored
AssignToPathsObject_Overwrite(ps, path, pathObject) ==
  ObjectAssign(ps, [k \in {PathName(path)} |-> pathObject])

\* assignToPathsObject(paths, path, pathObject):
\* paths[pathName] = { ...paths[pathName], ...pathObject }
AssignToPathsObject(ps, path, pathObject) ==
  LET pathName == PathName(path)
      old == IF pathName \in DOMAIN ps THEN ps[pathName] ELSE EmptyObject
  IN ObjectAssign(ps, [k \in {pathName} |-> ObjectAssign(old, pathObject)])

\* the outcome of one loop iteration that threw inside the try block
Thrown(message, counters) ==
  [threw |-> TRUE, message |-> message, pathItem |-> EmptyObject,
   counters |-> counters]

\* the outcome of one loop iteration that built its path-item
Built(operation, method, counters) ==
  [threw |-> FALSE, message |-> <<>>,
   pathItem |-> [m \in {method} |-> operation], counters |-> counters]

\* ---------------------------------------------------------- processRouter
\* extractResponses that keeps the "200" entry only
ExtractResponses_OkOnly(route) ==
  IF route.responses = Undefined THEN EmptyObject
  ELSE LET declared == The(route.responses)
       IN [statusCode \in (DOMAIN declared) \cap {"200"} |->
             [description |-> DescriptionOf(route),
              content |-> [c \in {GetJSONContentString} |->
                             [schema |-> Convert(declared[statusCode])]]]]

\* extractResponses(route)
ExtractResponses(route) ==
  IF route.responses = Undefined THEN EmptyObject
  ELSE LET declared == The(route.responses)
       IN [statusCode \in DOMAIN declared |->
             [description |-> DescriptionOf(route),
              content |-> [c \in {GetJSONContentString} |->
                             [schema |-> Convert(declared[statusCode])]]]]

\* some convert call of extractResponses throws
ExtractResponsesThrows(route) ==
  /\ route.responses # Undefined
  /\ \E statusCode \in DOMAIN The(route.responses) :
        ConvertThrows(The(route.responses)[statusCode])

\* the field f of the route's validation schemas, undefined without schemas
RouteSchema(route, f) ==
  LET validationSchemas == ExtractValidationSchemaFromRoute(route)
  IN IF validationSchemas = Undefined THEN Undefined
     ELSE The(validationSchemas)[f]

\* one iteration of processRouter's loop: the extraction of the validation
\* schemas, which precedes the try block, then the try block and its catch
ProcessRoute(route, counters) ==
  LET params == RouteSchema(route, "params")
      query == RouteSchema(route, "query")
      body == RouteSchema(route, "body")
      pathObjects == IF params # Undefined THEN ConvertPathParameters(The(params))
                     ELSE <<>>
      queryObjects == IF query # Undefined THEN ConvertQuery(The(query)) ELSE <<>>
      allocated == GetOperationId(counters, route.path)
      operation ==
        [requestBody |->
           IF body # Undefined
           THEN Some([content |-> [c \in {GetJSONContentString} |->
                                     [schema |-> Convert(body)]]])
           ELSE Undefined,
         responses |-> ExtractResponses(route),
         parameters |-> pathObjects \o queryObjects,
         operationId |-> allocated.id]
  IN IF ExtractValidationSchemaThrows(route)
     THEN Thrown(ExtractionError, counters)
     ELSE IF \/ ConvertThrows(params)
        \/ ConvertThrows(query)
        \/ ConvertThrows(body)
        \/ ExtractResponsesThrows(route)
     THEN Thrown(<<"Error generating OpenAPI for route '">> \o route.path
                   \o <<"': ">> \o ConversionError, counters)
     ELSE Built(operation, route.method, allocated.counters)

\* ------------------------------------------------- processVersionedRouter
\* schemas?.request of a handler: undefined when validation is off or the
\* schemas declare no request
RequestOf(handler) ==
  LET schemas == ExtractValidationSchemaFromVersionedHandler(handler)
  IN IF schemas = Undefined THEN Undefined ELSE The(schemas).request

\* schemas?.response of a handler
ResponseOf(handler) ==
  LET schemas == ExtractValidationSchemaFromVersionedHandler(handler)
  IN IF schemas = Undefined THEN Undefined ELSE The(schemas).response

\* schemas.request?.[f] of a handler
RequestSchema(handler, f) ==
  IF RequestOf(handler) = Undefined THEN Undefined ELSE The(RequestOf(handler))[f]

\* one step of extractRequestBody's reduce: (acc, handler) => ...
RequestBodyStep(acc, handler) ==
  IF RequestOf(handler) = Undefined THEN acc
  ELSE ObjectAssign(acc,
         [c \in {GetVersionedContentString(handler.version)} |->
            [schema |-> Convert(RequestSchema(handler, "body"))]])

\* route.handlers.reduce(..., acc) of extractRequestBody
RECURSIVE ExtractRequestBodyFrom(_, _)
ExtractRequestBodyFrom(handlers, acc) ==
  IF handlers = <<>> THEN acc
  ELSE ExtractRequestBodyFrom(Tail(handlers), RequestBodyStep(acc, Head(handlers)))

\* extractRequestBody(route)
ExtractRequestBody(route) == ExtractRequestBodyFrom(route.handlers, EmptyObject)

\* e.message of what one step of extractRequestBody's reduce throws, if it
\* throws: extracting the handler's schemas comes first, then convert
RequestBodyStepError(handler) ==
  IF ExtractValidationSchemaThrows(handler) THEN Some(ExtractionError)
  ELSE IF /\ RequestOf(handler) # Undefined
          /\ ConvertThrows(RequestSchema(handler, "body"))
       THEN Some(ConversionError)
       ELSE Undefined

\* e.message of what extractRequestBody throws: its first throwing step's
ExtractRequestBodyError(route) ==
  LET hits == {i \in 1..Len(route.handlers) :
                 RequestBodyStepError(route.handlers[i]) # Undefined}
  IN IF hits = {} THEN Undefined
     ELSE RequestBodyStepError(
            route.handlers[CHOOSE i \in hits : \A j \in hits : i <= j])

\* extractRequestBody throws
ExtractRequestBodyThrows(route) == ExtractRequestBodyError(route) # Undefined

\* acc[statusCode].content, empty when the status code is new
ContentAt(acc, statusCode) ==
  IF statusCode \in DOMAIN acc THEN acc[statusCode].content ELSE EmptyObject

\* one step of extractVersionedResponses' reduce that does not spread the
\* content already stored for the status code
VersionedResponsesStep_NoSpread(route, acc, handler) ==
  IF ResponseOf(handler) = Undefined THEN acc
  ELSE LET declared == The(ResponseOf(handler))
       IN ObjectAssign(acc,
            [statusCode \in DOMAIN declared |->
               [description |-> DescriptionOf(route),
                content |-> [c \in {GetVersionedContentString(handler.version)} |->
                               [schema |-> Convert(declared[statusCode])]]]])

\* one step of extractVersionedResponses' reduce: (acc, handler) => ...
VersionedResponsesStep(route, acc, handler) ==
  IF ResponseOf(handler) = Undefined THEN acc
  ELSE LET declared == The(ResponseOf(handler))
       IN ObjectAssign(acc,
            [statusCode \in DOMAIN declared |->
               [description |-> DescriptionOf(route),
                content |-> ObjectAssign(ContentAt(acc, statusCode),
                  [c \in {GetVersionedContentString(handler.version)} |->
                     [schema |-> Convert(declared[statusCode])]])]])

\* route.handlers.reduce(..., acc) of extractVersionedResponses
RECURSIVE ExtractVersionedResponsesFrom(_, _, _)
ExtractVersionedResponsesFrom(route, handlers, acc) ==
  IF handlers = <<>> THEN acc
  ELSE ExtractVersionedResponsesFrom(route, Tail(handlers),
         VersionedResponsesStep(route, acc, Head(handlers)))

\* extractVersionedResponses(route)
ExtractVersionedResponses(route) ==
  ExtractVersionedResponsesFrom(route, route.handlers, EmptyObject)

\* e.message of what one step of extractVersionedResponses' reduce throws
VersionedResponsesStepError(handler) ==
  IF ExtractValidationSchemaThrows(handler) THEN Some(ExtractionError)
  ELSE IF /\ ResponseOf(handler) # Undefined
          /\ \E statusCode \in DOMAIN The(ResponseOf(handler)) :
                ConvertThrows(The(ResponseOf(handler))[statusCode])
       THEN Some(ConversionError)
       ELSE Undefined

\* e.message of what extractVersionedResponses throws: its first throwing
\* step's
ExtractVersionedResponsesError(route) ==
  LET hits == {i \in 1..Len(route.handlers) :
                 VersionedResponsesStepError(route.handlers[i]) # Undefined}
  IN IF hits = {} THEN Undefined
     ELSE VersionedResponsesStepError(
            route.handlers[CHOOSE i \in hits : \A j \in hits : i <= j])

\* extractVersionedResponses throws
ExtractVersionedResponsesThrows(route) ==
  ExtractVersionedResponsesError(route) # Undefined

\* the version processVersionedRouter selects: newest of the handlers' versions
SelectedVersion(route) ==
  Newest({route.handlers[i].version : i \in 1..Len(route.handlers)})

\* a selection that takes the first registered handler's version
SelectedHandler_First(route) ==
  IF route.handlers = <<>> THEN Undefined ELSE Some(Head(route.handlers))

\* route.handlers.find(v === version): the first handler of that version
SelectedHandler(route) ==
  LET version == SelectedVersion(route)
      hits == {i \in 1..Len(route.handlers) :
                 version = Some(route.handlers[i].version)}
  IN IF hits = {} THEN Undefined
     ELSE Some(route.handlers[CHOOSE i \in hits : \A j \in hits : i <= j])

\* hasBody that tests the selected handler's request, not its body
HasBody_RequestDeclared(route) ==
  /\ SelectedHandler(route) # Undefined
  /\ RequestOf(The(SelectedHandler(route))) # Undefined

\* hasBody: the selected handler declares a request body schema
HasBody(route) ==
  /\ SelectedHandler(route) # Undefined
  /\ RequestSchema(The(SelectedHandler(route)), "body") # Undefined

\* one iteration of processVersionedRouter's loop: the selection of the
\* handler and the extraction of its schemas, which precede the try block,
\* then the try block and its catch
ProcessVersionedRoute(route, counters) ==
  LET version == SelectedVersion(route)
      handler == SelectedHandler(route)
      params == IF handler = Undefined THEN Undefined
                ELSE RequestSchema(The(handler), "params")
      query == IF handler = Undefined THEN Undefined
               ELSE RequestSchema(The(handler), "query")
      pathObjects == IF params # Undefined THEN ConvertPathParameters(The(params))
                     ELSE <<>>
      queryObjects == IF query # Undefined THEN ConvertQuery(The(query)) ELSE <<>>
      allocated == GetOperationId(counters, route.path)
      operation ==
        [requestBody |->
           IF HasBody(route) THEN Some([content |-> ExtractRequestBody(route)])
           ELSE Undefined,
         responses |-> ExtractVersionedResponses(route),
         parameters |-> pathObjects \o queryObjects,
         operationId |-> allocated.id]
      versionText == IF version = Undefined THEN <<"undefined">>
                     ELSE NumberToString(The(version))
      failure ==
        IF ConvertThrows(params) \/ ConvertThrows(query)
        THEN Some(ConversionError)
        ELSE IF HasBody(route) /\ ExtractRequestBodyThrows(route)
             THEN ExtractRequestBodyError(route)
             ELSE ExtractVersionedResponsesError(route)
  IN IF handler # Undefined /\ ExtractValidationSchemaThrows(The(handler))
     THEN Thrown(ExtractionError, counters)
     ELSE IF failure # Undefined
     THEN Thrown(<<"Error generating OpenAPI for route '">> \o route.path
                   \o <<"' using version '">> \o versionText
                   \o <<"': ">> \o The(failure), counters)
     ELSE Built(operation, route.method, allocated.counters)

\* -------------------------------------------------------- DocViewsRegistry
\* A Map<string, DocView> is the list of its values in insertion order; a doc
\* view is its id and its order.
\* Map.prototype.has(id)
MapHas(docViews, id) == \E i \in 1..Len(docViews) : docViews[i].id = id

\* Map.prototype.set(docView.id, docView): a key already there keeps its
\* place and takes the new value
MapSet(docViews, docView) ==
  IF MapHas(docViews, docView.id)
  THEN [i \in 1..Len(docViews) |->
          IF docViews[i].id = docView.id THEN docView ELSE docViews[i]]
  ELSE Append(docViews, docView)

\* new Map(entries)
RECURSIVE MapOf(_, _)
MapOf(entries, docViews) ==
  IF entries = <<>> THEN docViews
  ELSE MapOf(Tail(entries), MapSet(docViews, Head(entries)))

\* Map.prototype.delete(id)
MapDelete(docViews, id) == SelectSeq(docViews, LAMBDA docView : docView.id # id)

\* one step of the stable sort: docView goes behind every entry whose order
\* is not greater than its own
RECURSIVE InsertByOrder(_, _)
InsertByOrder(sorted, docView) ==
  IF sorted = <<>> THEN <<docView>>
  ELSE IF Head(sorted).order - docView.order <= 0
       THEN <<Head(sorted)>> \o InsertByOrder(Tail(sorted), docView)
       ELSE <<docView>> \o sorted

\* entries.sort(([, curr], [, next]) => curr.order - next.order)
RECURSIVE SortByOrder(_, _)
SortByOrder(entries, sorted) ==
  IF entries = <<>> THEN sorted
  ELSE SortByOrder(Tail(entries), InsertByOrder(sorted, Head(entries)))

\* Maps live on a heap: maps takes the reference of a Map to its entries, and
\* a registry's docViews field holds such a reference.
\* the reference a Map created now gets: the least one not in use
NewRef(maps) ==
  CHOOSE r \in 1..(Cardinality(DOMAIN maps) + 1) :
    /\ r \notin DOMAIN maps
    /\ \A q \in 1..(r - 1) : q \in DOMAIN maps

\* new Map(entries): the heap with that Map on it, and its reference
NewMap(maps, entries) ==
  LET r == NewRef(maps)
  IN [maps |-> [q \in DOMAIN maps \cup {r} |->
                  IF q = r THEN MapOf(entries, <<>>) ELSE maps[q]],
      docViews |-> r]

\* sortDocViews(): this.docViews = new Map(sortedEntries)
SortDocViews(maps, docViews) ==
  NewMap(maps, SortByOrder(maps[docViews], <<>>))

\* what new DocViewsRegistry(initialValue) is given: a registry, that is its
\* docViews field
FromRegistry(docViews) == [kind |-> "registry", docViews |-> docViews]

\* ... an array of doc views
FromArray(array) == [kind |-> "array", docViews |-> array]

\* ... no initial value
FromNothing == [kind |-> "none", docViews |-> <<>>]

\* a constructor that keeps the Map of the registry it is given
Constructor_SameMap(maps, initialValue) ==
  IF initialValue.kind = "registry"
  THEN [maps |-> maps, docViews |-> initialValue.docViews]
  ELSE NewMap(maps, initialValue.docViews)

\* constructor(initialValue): the heap afterwards and the docViews field of
\* the new registry
Constructor(maps, initialValue) ==
  IF initialValue.kind = "registry"
  THEN NewMap(maps, maps[initialValue.docViews])
  ELSE IF initialValue.kind = "array" THEN NewMap(maps, initialValue.docViews)
       ELSE NewMap(maps, <<>>)

\* getAll(): [...this.docViews.values()]
GetAll(maps, docViews) == maps[docViews]

\* docViewRaw as add is given it: a doc view or a function returning one
Given(docView) == [kind |-> "object", docView |-> docView]

Factory(docView) == [kind |-> "function", docView |-> docView]

\* typeof docViewRaw === 'function' ? docViewRaw() : docViewRaw
Resolve(docViewRaw) == docViewRaw.docView

\* the message of the error add throws for an id already registered
AlreadyRegistered(id) ==
  <<"DocViewsRegistry#add: a DocView is already registered with id \"", id,
    "\".">>

\* an add that sets the doc view before it looks for its id
Add_SetFirst(maps, docViews, docViewRaw) ==
  LET docView == Resolve(docViewRaw)
      set == [maps EXCEPT ![docViews] = MapSet(@, docView)]
      sorted == SortDocViews(set, docViews)
  IN IF MapHas(maps[docViews], docView.id)
     THEN [maps |-> sorted.maps, docViews |-> sorted.docViews,
           error |-> Some(AlreadyRegistered(docView.id))]
     ELSE [maps |-> sorted.maps, docViews |-> sorted.docViews,
           error |-> Undefined]

\* add(docViewRaw): the heap and the registry's docViews field after the
\* call, and the error it threw
Add(maps, docViews, docViewRaw) ==
  LET docView == Resolve(docViewRaw)
      set == [maps EXCEPT ![docViews] = MapSet(@, docView)]
      sorted == SortDocViews(set, docViews)
  IN IF MapHas(maps[docViews], docView.id)
     THEN [maps |-> maps, docViews |-> docViews,
           error |-> Some(AlreadyRegistered(docView.id))]
     ELSE [maps |-> sorted.maps, docViews |-> sorted.docViews,
           error |-> Undefined]

\* removeById(id): this.docViews.delete(id)
RemoveById(maps, docViews, id) ==
  [maps EXCEPT ![docViews] = MapDelete(@, id)]

\* clone(): new DocViewsRegistry(this)
Clone(maps, docViews) == Constructor(maps, FromRegistry(docViews))

\* References are kept in one form: a Map is referred to by the number of the
\* first registry that holds it.
\* the first of the registries holding the Map registry i holds
Holder(list, i) ==
  CHOOSE j \in 1..i :
    /\ list[j].docViews = list[i].docViews
    /\ \A k \in 1..(j - 1) : list[k].docViews # list[i].docViews

\* the registries with the references in that form
Renamed(list) == [i \in DOMAIN list |-> [docViews |-> Holder(list, i)]]

\* the heap in that form, without the Maps no registry holds any more
Collect(maps, list) ==
  [r \in {Holder(list, i) : i \in DOMAIN list} |-> maps[list[r].docViews]]

\* ---------------------------------------- ElasticsearchMonitorStatesAdapter
\* null, and what if (value) makes of null and of an object
Null == {}

Truthy(value) == value # Null

\* A database is the list of the pages its composite aggregation over the
\* monitors returns, a page the list of the statuses of its monitors; the
\* key of a monitor is its page and its place on it.
\* the composite aggregation: the page behind the key it is given, and an
\* after_key while pages remain
SearchMonitors(database, after) ==
  LET page == IF after = Null THEN 1 ELSE The(after) + 1
  IN [buckets |-> IF page <= Len(database)
                  THEN [i \in DOMAIN database[page] |-> [key |-> <<page, i>>]]
                  ELSE <<>>,
      after_key |-> IF page < Len(database) THEN Some(page) ELSE Null]

\* the states aggregation over the documents of the given check groups: at
\* most LEGACY_STATES_QUERY_SIZE monitors, each with its status
SearchStates(database, checkGroups) ==
  LET size == IF Len(checkGroups) < LEGACY_STATES_QUERY_SIZE
              THEN Len(checkGroups) ELSE LEGACY_STATES_QUERY_SIZE
  IN [i \in 1..size |->
        [key |-> checkGroups[i],
         status |-> database[checkGroups[i][1]][checkGroups[i][2]]]]

\* runLegacyMonitorStatesRecentCheckGroupsQuery(request, query, searchAfter)
RunLegacyMonitorStatesRecentCheckGroupsQuery(database, searchAfter) ==
  LET after == IF Truthy(searchAfter) THEN searchAfter ELSE Null
      result == SearchMonitors(database, after)
  IN [checkGroups |-> [i \in DOMAIN result.buckets |-> result.buckets[i].key],
      afterKey |-> result.after_key]

\* runLegacyMonitorStatesQuery(request, ..., filters, searchAfter)
RunLegacyMonitorStatesQuery(database, statusFilter, searchAfter) ==
  LET recent == RunLegacyMonitorStatesRecentCheckGroupsQuery(database,
                                                             searchAfter)
  IN [afterKey |-> recent.afterKey,
      result |-> SearchStates(database, recent.checkGroups),
      statusFilter |-> statusFilter]

\* getMonitorBuckets(queryResult, statusFilter)
GetMonitorBuckets(queryResult, statusFilter) ==
  IF statusFilter # Undefined
  THEN SelectSeq(queryResult, LAMBDA monitor : monitor.status = The(statusFilter))
  ELSE queryResult

\* a loop that goes on until the after key is null
Continues_UntilNull(searchAfter, monitors) == searchAfter # Null

\* while (searchAfter !== null && monitors.length < LEGACY_STATES_QUERY_SIZE)
Continues(searchAfter, monitors) ==
  searchAfter # Null /\ Len(monitors) < LEGACY_STATES_QUERY_SIZE

\* monitors.map(...): one summary for each monitor
Summaries(monitors) ==
  [i \in DOMAIN monitors |->
     [monitor_id |-> monitors[i].key, state |-> monitors[i].status]]

\* ------------------------------------- the scripted metric of the states query
\* A document is its agent.id, its monitor.ip if it has one, its @timestamp
\* and its monitor.status.
\* init_script: state.checksByAgentIdIP = new HashMap()
InitScript == EmptyObject

\* agentId + "-" + (ip == null ? "" : ip.toString())
AgentIdIP(doc) ==
  doc.agentId \o <<"-">> \o (IF doc.ip = Undefined THEN <<>> ELSE The(doc.ip))

\* the check map_script makes of a document
CurCheck(doc) ==
  [timestamp |-> doc.timestamp,
   agent |-> [id |-> doc.agentId],
   monitor |-> [status |-> doc.status, ip |-> doc.ip]]

\* map_script on one document: checksByAgentIdIP afterwards
MapScript(checksByAgentIdIP, doc) ==
  LET agentId == doc.agentId
      agentIdIP == AgentIdIP(doc)
      ts == doc.timestamp
      lastCheck == IF agentId \in DOMAIN checksByAgentIdIP
                   THEN Some(checksByAgentIdIP[agentId]) ELSE Undefined
      lastTs == IF lastCheck # Undefined
                THEN Some(The(lastCheck).timestamp) ELSE Undefined
  IN IF lastTs # Undefined /\ The(lastTs) > ts
     THEN checksByAgentIdIP
     ELSE [k \in DOMAIN checksByAgentIdIP \cup {agentIdIP} |->
             IF k = agentIdIP THEN CurCheck(doc) ELSE checksByAgentIdIP[k]]

\* the inner loop of reduce_script for one key of one state
ReduceEntry(checks, agentIdIP, check) ==
  IF agentIdIP \notin DOMAIN checks
       \/ checks[agentIdIP].timestamp < check.timestamp
  THEN [k \in DOMAIN checks \cup {agentIdIP} |->
          IF k = agentIdIP THEN check ELSE checks[k]]
  ELSE checks

\* ... for all keys of one state; no key is visited twice, so their order
\* does not matter
ReduceState(checks, state) ==
  [k \in DOMAIN checks \cup DOMAIN state |->
     IF k \in DOMAIN state THEN ReduceEntry(checks, k, state[k])[k]
     ELSE checks[k]]

\* the outer loop of reduce_script over the states in the given order
RECURSIVE ReduceStates(_, _)
ReduceStates(checks, states) ==
  IF states = <<>> THEN checks
  ELSE ReduceStates(ReduceState(checks, Head(states)), Tail(states))

\* the greatest timestamp of a set of checks, from Instant.ofEpochMilli(0) on
MaxTs(checks) ==
  IF checks = {} THEN 0
  ELSE CHOOSE t \in {c.timestamp : c \in checks} :
         \A c \in checks : c.timestamp <= t

\* reduce_script: the final document
ReduceScript(states) ==
  LET checks == ReduceStates(EmptyObject, states)
      up == Cardinality({k \in DOMAIN checks : checks[k].monitor.status = "up"})
      down == Cardinality(DOMAIN checks) - up
  IN [checks |-> checks,
      timestamp |-> MaxTs(UNION {{st[k] : k \in DOMAIN st} :
                                   st \in {states[i] : i \in DOMAIN states}}),
      summary |-> [up |-> up, down |-> down],
      monitor |-> [status |-> IF down > 0
                              THEN (IF up > 0 THEN "mixed" ELSE "down")
                              ELSE "up"]]

\* ------------------------------------------------------------ DocCountChart
PROGRESS_INCREMENT == 5

FINISHED_CHECKS == 5

\* the date fields of the mappings, in their order
DateFields(mappings) ==
  SelectSeq(mappings,
            LAMBDA field : field.type = "date" \/ field.type = "date_nanos")

\* timeFieldName: @timestamp if it is a date field, else the first date field
TimeFieldName(mappings) ==
  LET dateFields == DateFields(mappings)
  IN IF Len(dateFields) = 0 THEN Undefined
     ELSE IF \E i \in DOMAIN dateFields : dateFields[i].name = "@timestamp"
          THEN Some("@timestamp")
          ELSE Some(dateFields[1].name)

\* loadData gets past its first test: it sets loading and sends its requests
LoadDataStarts(timeFieldName) == timeFieldName # Undefined

\* the first branch of the effect is taken
EffectBeforeCompletion(loading, uploadProgress) ==
  loading = FALSE /\ uploadProgress > 1 /\ uploadProgress < 100

\* the first branch is taken and loads
EffectLoads(loading, uploadProgress, previousProgress) ==
  /\ EffectBeforeCompletion(loading, uploadProgress)
  /\ uploadProgress - previousProgress > PROGRESS_INCREMENT

\* an effect that starts the finished checks whatever finished says
EffectFinishes_Unguarded(loading, uploadProgress, finished) ==
  /\ ~EffectBeforeCompletion(loading, uploadProgress)
  /\ loading = FALSE /\ uploadProgress = 100

\* the second branch of the effect is taken
EffectFinishes(loading, uploadProgress, finished) ==
  /\ ~EffectBeforeCompletion(loading, uploadProgress)
  /\ loading = FALSE /\ uploadProgress = 100 /\ finished = FALSE

\* finishedChecks(counter): the timers it sets after calling loadData(100)
FinishedChecks(counter) ==
  IF counter # 0
  THEN {[counter |-> counter - 1, delay |-> 2 * 1000, elapsed |-> 0]}
  ELSE {}

\* ------------------------------------------------------------------ inputs
Methods == {"get", "post"}

\* route paths: plain, with a trailing '?', with an inner '?' (an optional
\* path parameter), and one differing from the others in case only
RoutePaths ==
  {<<"/", "a">>, <<"/", "a", "?">>, <<"/", "a", "?", "b">>, <<"/", "A">>}

\* opts.pathStartsWith: not given, empty, or a prefix
PathFilters == {Undefined, Some(<<>>), Some(<<"/", "a">>)}

NoSchemas == [params |-> Undefined, query |-> Undefined, body |-> Undefined]

\* what Router.getRoutes(true) can hand out
Routes ==
  {[path |-> p, method |-> m,
    validate |-> Some([NoSchemas EXCEPT !.body = Some(<<"body", 0>>)]),
    responses |-> Some([c \in {"200"} |-> Some(<<"response", 0>>)]),
    description |-> Undefined] : p \in RoutePaths, m \in Methods}
  \cup
  {[path |-> <<"/", "a">>, method |-> "get",
    validate |-> Some([NoSchemas EXCEPT !.body = Some(BadSchema)]),
    responses |-> Undefined, description |-> Undefined]}

Versions == 1..MaxHandlers

\* the validation a handler of version v can be registered with
HandlerValidations(v) ==
  {Undefined,
   Some([request |-> Some([NoSchemas EXCEPT !.params = Some(<<"params", v>>),
                                            !.query = Some(<<"query", v>>)]),
         response |-> Undefined]),
   Some([request |-> Some([NoSchemas EXCEPT !.body = Some(<<"body", v>>)]),
         response |-> Some([c \in {"200"} |-> Some(<<"response", v>>)])]),
   Some([request |-> Some([params |-> Some(<<"params", v>>),
                           query |-> Some(<<"query", v>>),
                           body |-> Some(<<"body", v>>)]),
         response |-> Some([c \in {"200", "404"} |-> Some(<<"response", v>>)])]),
   Some([request |-> Undefined,
         response |-> Some([c \in {"200"} |-> Undefined])])}

Handlers ==
  UNION {{[version |-> v, validate |-> s] : s \in HandlerValidations(v)}
         : v \in Versions}

\* route.handlers: the versioned router registers each version at most once
HandlerLists ==
  UNION {{hs \in [1..k -> Handlers] :
            \A i, j \in 1..k : i # j => hs[i].version # hs[j].version}
         : k \in 0..MaxHandlers}

\* what CoreVersionedRouter.getRoutes() can hand out in a whole document
VersionedRoutes ==
  {[path |-> p, method |-> m,
    handlers |-> <<[version |-> 1,
                    validate |-> Some([request |-> Some([NoSchemas EXCEPT
                                                   !.body = Some(<<"body", 1>>)]),
                                       response |-> Undefined])]>>,
    description |-> Undefined] : p \in RoutePaths, m \in Methods}
  \cup
  {[path |-> <<"/", "a">>, method |-> "get",
    handlers |-> <<[version |-> 1,
                    validate |-> Some([request |-> Some([NoSchemas EXCEPT
                                                   !.params = Some(BadSchema)]),
                                       response |-> Undefined])]>>,
    description |-> Undefined]}

\* one versioned route in full detail: every registration of its handlers
DetailedVersionedRoutes ==
  {[path |-> <<"/", "a">>, method |-> "get", handlers |-> hs, description |-> d] :
     hs \in HandlerLists, d \in {Undefined, Some(<<"d">>)}}

\* the validation schemas an unversioned route can be registered with
RouteValidations ==
  {Undefined,
   Some(NoSchemas),
   Some([NoSchemas EXCEPT !.body = Some(<<"body", 0>>)]),
   Some([NoSchemas EXCEPT !.params = Some(<<"params", 0>>),
                          !.query = Some(<<"query", 0>>)]),
   Some([params |-> Some(<<"params", 0>>), query |-> Some(<<"query", 0>>),
         body |-> Some(<<"body", 0>>)])}

\* the options.responses an unversioned route can be registered with
RouteResponses ==
  {Undefined,
   Some(EmptyObject),
   Some([c \in {"200"} |-> Some(<<"response", 0>>)]),
   Some([c \in {"200"} |-> Undefined]),
   Some([c \in {"200", "404"} |-> Some(<<"response", 0>>)])}

\* one unversioned route in full detail: every registration of its schemas
DetailedRoutes ==
  {[path |-> <<"/", "a">>, method |-> m, validate |-> v, responses |-> rs,
    description |-> d] :
     m \in Methods, v \in RouteValidations, rs \in RouteResponses,
     d \in {Undefined, Some(<<"d">>)}}

\* the routes of a caller that calls more than once: a path under two
\* methods (once with a trailing '?'), a path with two '?', and a route
\* whose validation throws
ReplayRoutes ==
  {[path |-> <<"/", "a">>, method |-> "get",
    validate |-> Some([NoSchemas EXCEPT !.body = Some(<<"body", 0>>)]),
    responses |-> Some([c \in {"200"} |-> Some(<<"response", 0>>)]),
    description |-> Undefined],
   [path |-> <<"/", "a", "?">>, method |-> "post",
    validate |-> Undefined, responses |-> Undefined, description |-> Undefined],
   [path |-> <<"/", "a", "?", "?">>, method |-> "post",
    validate |-> Undefined, responses |-> Undefined, description |-> Undefined],
   [path |-> <<"/", "a">>, method |-> "post",
    validate |-> Some(ThrowingValidation),
    responses |-> Undefined, description |-> Undefined]}

\* a handler of version v that validates a request body
BodyHandler(v) ==
  [version |-> v,
   validate |-> Some([request |-> Some([NoSchemas EXCEPT
                                          !.body = Some(<<"body", v>>)]),
                      response |-> Undefined])]

\* its versioned routes: a path that differs from an unversioned one by a
\* trailing '?', a route whose newest handler has an unsupported schema, and
\* a route whose newest handler's validation throws
ReplayVersionedRoutes ==
  {[path |-> <<"/", "a", "?">>, method |-> "post",
    handlers |-> <<BodyHandler(1)>>, description |-> Undefined],
   [path |-> <<"/", "a">>, method |-> "get",
    handlers |-> <<BodyHandler(1),
                   [version |-> 2,
                    validate |-> Some([request |-> Some([NoSchemas EXCEPT
                                                   !.params = Some(BadSchema)]),
                                       response |-> Undefined])]>>,
    description |-> Undefined],
   [path |-> <<"/", "a">>, method |-> "post",
    handlers |-> <<BodyHandler(1),
                   [version |-> 2, validate |-> Some(ThrowingValidation)]>>,
    description |-> Undefined]}

\* the pathStartsWith its calls pass
ReplayFilters == {Undefined, Some(<<"/", "a", "?">>)}

\* the doc views a caller registers: two with the id a, two of order 1
DocViews ==
  {[id |-> "a", order |-> 1], [id |-> "a", order |-> 2],
   [id |-> "b", order |-> 1]}

\* the ids removeById is called with: a and b, and c, which no doc view has
DocViewIds == {docView.id : docView \in DocViews} \cup {"c"}

\* the arrays of doc views a registry is constructed from
DocViewArrays == UNION {[1..k -> DocViews] : k \in 0..MaxViews}

\* the statuses of a monitor
Statuses == {"up", "down"}

\* the pages of a database: at most LEGACY_STATES_QUERY_SIZE monitors each
Pages == UNION {[1..k -> Statuses] : k \in 0..LEGACY_STATES_QUERY_SIZE}

\* the databases a request is answered from: every page is full but the
\* last, or the last two when the last one is empty
Databases ==
  {db \in UNION {[1..k -> Pages] : k \in 1..MaxPages} :
     \A i \in 1..(Len(db) - 1) :
       \/ Len(db[i]) = LEGACY_STATES_QUERY_SIZE
       \/ i = Len(db) - 1 /\ db[Len(db)] = <<>>}

\* the status filters of a request
StatusFilters == {Undefined, Some("up"), Some("down")}

\* the documents of one monitor: two agents, with and without a monitor.ip
Docs ==
  [agentId : {<<"a">>, <<"b">>}, ip : {Undefined, Some(<<"1">>)},
   timestamp : 1..MaxTimestamp, status : {"up", "down"}]

\* the orders in which reduce_script is handed the states of the shards
ShardOrders ==
  {order \in [1..MaxShards -> 1..MaxShards] :
     \A i, j \in 1..MaxShards : order[i] = order[j] => i = j}

\* the mappings a chart is given: no date field, one, and two of which the
\* second is @timestamp
Mappings ==
  {<<[name |-> "k", type |-> "keyword"]>>,
   <<[name |-> "k", type |-> "keyword"], [name |-> "t", type |-> "date"]>>,
   <<[name |-> "t", type |-> "date_nanos"],
     [name |-> "@timestamp", type |-> "date"]>>}

\* the upload progress a chart is rendered with
Progress == {0, 1, 2, 6, 7, 8, 13, 100}

\* opts without title, description, version, base url, docs url or tags of
\* interest
DefaultOptions ==
  [title |-> <<"t">>, description |-> Undefined, version |-> <<"1">>,
   baseUrl |-> <<"u">>, docsUrl |-> Undefined, tags |-> Undefined]

\* the options a call can pass besides pathStartsWith: description and
\* docsUrl given or not (docsUrl also as the empty string), tags not given,
\* empty, or two names in either order
OptionsGiven ==
  {[title |-> <<"t">>, description |-> d, version |-> <<"1">>, baseUrl |-> u,
    docsUrl |-> docs, tags |-> tags] :
     d \in {Undefined, Some(<<"d">>)},
     u \in {<<"u">>, <<"v">>},
     docs \in {Undefined, Some(<<>>), Some(<<"h">>)},
     tags \in {Undefined, Some(<<>>), Some(<<<<"x">>, <<"y">>>>),
               Some(<<<<"y">>, <<"x">>>>)}}

\* appRouters without any router
NoRouters == [routers |-> <<>>, versionedRouters |-> <<>>]

\* the route lists of at most n routes over a universe
RouteLists(universe, n) == UNION {[1..k -> universe] : k \in 0..n}

\* ------------------------------------------------------------------- state
VARIABLES
  operationIdCounters, \* the module-level Map of getOperationId
  pc,                  \* where generateOpenApiDocument stands
  pathStartsWith,      \* opts.pathStartsWith of the running call
  paths,               \* generateOpenApiDocument's paths
  routerPaths,         \* paths of the running processRouter/processVersionedRouter
  routes,              \* the prepared routes its loop has still to visit
  route,               \* the route of the last loop iteration
  pathItem,            \* the path-item that iteration built
  error,               \* the error the call threw
  document,            \* the document the call returned
  offered,             \* how often getRoutes handed out each path in this call
  handedOut,           \* routes getRoutes handed out in this call
  visited,             \* routers visited in this call
  opts,                \* the other options of the running call
  startCounters,       \* operationIdCounters as the running call found it
  calls,               \* direct getOperationId calls made per name
  lastCall,            \* the last direct getOperationId call: name and result
  returnedIds,         \* every id a direct getOperationId call returned
  appRouters,          \* the routers a caller passes to each of its calls
  generation,          \* calls that caller has completed
  previous,            \* the document its preceding call returned
  registries,          \* every DocViewsRegistry instance: its docViews field
  maps,                \* the entries of every Map a registry holds
  registryError,       \* the error the last DocViewsRegistry call threw
  registryCall,        \* the last DocViewsRegistry call: method, receiver, id
  registrySource,      \* the registry each registry was constructed from, or 0
  statesPc,            \* where legacyGetMonitorStates stands
  database,            \* the database its queries are answered from
  statusFilter,        \* the status filter of its request
  searchAfter,         \* legacyGetMonitorStates' searchAfter
  monitors,            \* legacyGetMonitorStates' monitors
  queries,             \* its states queries so far: argument, after key, length
  summaries,           \* what legacyGetMonitorStates returned
  states,              \* checksByAgentIdIP of the state of every shard
  mapped,              \* the documents map_script has visited on every shard
  reduced,             \* what reduce_script returned
  timeFieldName,       \* DocCountChart's timeFieldName
  uploadProgress,      \* statuses.uploadProgress of its last render
  loading,             \* its loading state
  finished,            \* its finished state
  previousProgress,    \* its previousProgress state
  inFlight,            \* the loads that have started and not yet ended
  timers,              \* the pending timers of finishedChecks
  sequences,           \* how often the effect has called finishedChecks
  finalCalls,          \* how often finishedChecks has called loadData(100)
  lastLoadData         \* the last call of loadData, and how it came about

vars == <<operationIdCounters, pc, pathStartsWith, paths, routerPaths, routes,
          route, pathItem, error, document, offered, handedOut, visited,
          opts, startCounters, calls, lastCall, returnedIds,
          appRouters, generation, previous, registries, maps, registryError,
          registryCall, registrySource, statesPc, database, statusFilter,
          searchAfter, monitors, queries, summaries, states, mapped, reduced,
          timeFieldName, uploadProgress, loading, finished, previousProgress,
          inFlight, timers, sequences, finalCalls, lastLoadData>>

callVars == <<pc, pathStartsWith, paths, routerPaths, routes, route, pathItem,
              error, document, offered, handedOut, visited, opts,
              startCounters>>

allocVars == <<calls, lastCall, returnedIds>>

replayVars == <<appRouters, generation, previous>>

registryVars == <<registries, maps, registryError, registryCall,
                  registrySource>>

statesVars == <<statesPc, database, statusFilter, searchAfter, monitors,
                queries, summaries>>

scriptVars == <<states, mapped, reduced>>

chartVars == <<timeFieldName, uploadProgress, loading, finished,
               previousProgress, inFlight, timers, sequences, finalCalls,
               lastLoadData>>

componentVars == <<statesVars, scriptVars, chartVars>>

Init ==
  /\ operationIdCounters = EmptyObject
  /\ pc = "idle"
  /\ pathStartsWith = Undefined
  /\ paths = EmptyObject
  /\ routerPaths = EmptyObject
  /\ routes = <<>>
  /\ route = Undefined
  /\ pathItem = Undefined
  /\ error = Undefined
  /\ document = Undefined
  /\ offered = EmptyObject
  /\ handedOut = 0
  /\ visited = 0
  /\ opts = DefaultOptions
  /\ startCounters = EmptyObject
  /\ calls = EmptyObject
  /\ lastCall = Undefined
  /\ returnedIds = {}
  /\ appRouters = NoRouters
  /\ generation = 0
  /\ previous = Undefined
  /\ registries = <<>>
  /\ maps = EmptyObject
  /\ registryError = Undefined
  /\ registryCall = Undefined
  /\ registrySource = <<>>
  /\ statesPc = "idle"
  /\ database = <<>>
  /\ statusFilter = Undefined
  /\ searchAfter = Null
  /\ monitors = <<>>
  /\ queries = <<>>
  /\ summaries = Undefined
  /\ states = [shard \in 1..MaxShards |-> InitScript]
  /\ mapped = [shard \in 1..MaxShards |-> {}]
  /\ reduced = Undefined
  /\ timeFieldName = Undefined
  /\ uploadProgress = 0
  /\ loading = FALSE
  /\ finished = FALSE
  /\ previousProgress = 0
  /\ inFlight = 0
  /\ timers = {}
  /\ sequences = 0
  /\ finalCalls = 0
  /\ lastLoadData = Undefined

\* ----------------------------------------------------------------- actions
\* generateOpenApiDocument(appRouters, opts) is entered: const paths = {}
GenerateWith(filter, options) ==
  /\ pc = "idle"
  /\ pc' = "routers"
  /\ pathStartsWith' = filter
  /\ opts' = options
  /\ startCounters' = operationIdCounters
  /\ paths' = EmptyObject
  /\ UNCHANGED <<operationIdCounters, routerPaths, routes, route, pathItem,
                 error, document, offered, handedOut, visited>>
  /\ UNCHANGED <<allocVars, replayVars, registryVars, componentVars>>

\* the call is entered with a path filter and otherwise plain options
Generate(filter) == GenerateWith(filter, DefaultOptions)

\* the bag of paths after getRoutes handed out the list rs
OfferedAfter(rs) ==
  LET ps == {rs[i].path : i \in 1..Len(rs)}
      Times(p) == Cardinality({i \in 1..Len(rs) : rs[i].path = p})
  IN [p \in (DOMAIN offered) \cup ps |-> CounterOf(offered, p) + Times(p)]

\* a router's processing starts: getRoutes, prepareRoutes, const paths = {}
EnterRouter(rs, next) ==
  /\ visited < MaxRouters
  /\ pc' = next
  /\ routes' = PrepareRoutes(rs, pathStartsWith)
  /\ routerPaths' = EmptyObject
  /\ offered' = OfferedAfter(rs)
  /\ handedOut' = handedOut + Len(rs)
  /\ visited' = visited + 1
  /\ UNCHANGED <<operationIdCounters, pathStartsWith, paths, route, pathItem,
                 error, document>>
  /\ UNCHANGED <<opts, startCounters>>
  /\ UNCHANGED <<allocVars, registryVars, componentVars>>

\* one iteration of a router's loop, with the outcome of its try block
Iterate(r, outcome) ==
  /\ route' = Some(r)
  /\ routes' = Tail(routes)
  /\ operationIdCounters' = outcome.counters
  /\ IF outcome.threw
     THEN /\ pc' = "threw"
          /\ error' = Some(outcome.message)
          /\ pathItem' = Undefined
          /\ UNCHANGED routerPaths
     ELSE /\ pathItem' = Some(outcome.pathItem)
          /\ routerPaths' = AssignToPathsObject(routerPaths, r.path, outcome.pathItem)
          /\ UNCHANGED <<pc, error>>
  /\ UNCHANGED <<pathStartsWith, paths, document, offered, handedOut, visited>>
  /\ UNCHANGED <<opts, startCounters>>
  /\ UNCHANGED <<allocVars, replayVars, registryVars, componentVars>>

\* Object.assign(paths, <the router's paths>) of generateOpenApiDocument
MergePaths(into, from) == ObjectAssign(into, from)

\* a router's loop is over: its paths are assigned onto the document's
LeaveRouter(back) ==
  /\ routes = <<>>
  /\ paths' = MergePaths(paths, routerPaths)
  /\ pc' = back
  /\ UNCHANGED <<operationIdCounters, pathStartsWith, routerPaths, routes, route,
                 pathItem, error, document, offered, handedOut, visited>>
  /\ UNCHANGED <<opts, startCounters>>
  /\ UNCHANGED <<allocVars, replayVars, registryVars, componentVars>>

\* for (const router of appRouters.routers), over a universe of routes
ProcessRouterEnterOver(universe, most) ==
  /\ pc = "routers"
  /\ \E rs \in RouteLists(universe, most) :
       EnterRouter(rs, "processRouter")
  /\ UNCHANGED replayVars

\* processRouter is entered
ProcessRouterEnter == ProcessRouterEnterOver(Routes, MaxRoutes - handedOut)

\* for (const route of routes) of processRouter
ProcessRouterIterate ==
  /\ pc = "processRouter"
  /\ routes # <<>>
  /\ Iterate(Head(routes), ProcessRoute(Head(routes), operationIdCounters))

\* processRouter returns
ProcessRouterLeave ==
  /\ pc = "processRouter"
  /\ LeaveRouter("routers")

\* for (const router of appRouters.versionedRouters), over a universe of routes
ProcessVersionedRouterEnterOver(universe, most) ==
  /\ pc \in {"routers", "versionedRouters"}
  /\ \E rs \in RouteLists(universe, most) :
       EnterRouter(rs, "processVersionedRouter")
  /\ UNCHANGED replayVars

\* processVersionedRouter is entered
ProcessVersionedRouterEnter ==
  ProcessVersionedRouterEnterOver(VersionedRoutes, MaxRoutes - handedOut)

\* for (const route of routes) of processVersionedRouter
ProcessVersionedRouterIterate ==
  /\ pc = "processVersionedRouter"
  /\ routes # <<>>
  /\ Iterate(Head(routes), ProcessVersionedRoute(Head(routes), operationIdCounters))

\* processVersionedRouter returns
ProcessVersionedRouterLeave ==
  /\ pc = "processVersionedRouter"
  /\ LeaveRouter("versionedRouters")

\* export const openApiVersion = '3.0.0'
openApiVersion == <<"3.0.0">>

\* opts.tags?.map((tag) => ({ name: tag }))
TagObjects(tags) ==
  IF tags = Undefined THEN Undefined
  ELSE Some([i \in 1..Len(The(tags)) |-> [name |-> The(tags)[i]]])

\* a document whose externalDocs is there whenever docsUrl is given, empty
\* or not
Document_DocsWhenGiven(options, ps) ==
  [openapi |-> openApiVersion,
   info |-> [title |-> options.title, description |-> options.description,
             version |-> options.version],
   servers |-> <<[url |-> options.baseUrl]>>,
   paths |-> ps,
   security |-> <<[k \in {"basicAuth"} |-> <<>>],
                  [k \in {"apiKeyAuth"} |-> <<>>]>>,
   tags |-> TagObjects(options.tags),
   externalDocs |-> IF options.docsUrl # Undefined
                    THEN Some([url |-> The(options.docsUrl)]) ELSE Undefined]

\* the object generateOpenApiDocument returns; opts.docsUrl is truthy when it
\* is a non-empty string
Document(options, ps) ==
  [openapi |-> openApiVersion,
   info |-> [title |-> options.title, description |-> options.description,
             version |-> options.version],
   servers |-> <<[url |-> options.baseUrl]>>,
   paths |-> ps,
   security |-> <<[k \in {"basicAuth"} |-> <<>>],
                  [k \in {"apiKeyAuth"} |-> <<>>]>>,
   tags |-> TagObjects(options.tags),
   externalDocs |-> IF options.docsUrl # Undefined /\ The(options.docsUrl) # <<>>
                    THEN Some([url |-> The(options.docsUrl)]) ELSE Undefined]

\* both loops are over: the document is returned
Return ==
  /\ pc \in {"routers", "versionedRouters"}
  /\ pc' = "returned"
  /\ document' = Some(Document(opts, paths))
  /\ UNCHANGED <<operationIdCounters, pathStartsWith, paths, routerPaths, routes,
                 route, pathItem, error, offered, handedOut, visited>>
  /\ UNCHANGED <<opts, startCounters>>
  /\ UNCHANGED <<allocVars, replayVars, registryVars, componentVars>>

Next ==
  \/ \E filter \in PathFilters : Generate(filter)
  \/ ProcessRouterEnter
  \/ ProcessRouterIterate
  \/ ProcessRouterLeave
  \/ ProcessVersionedRouterEnter
  \/ ProcessVersionedRouterIterate
  \/ ProcessVersionedRouterLeave
  \/ Return

Spec == Init /\ [][Next]_vars

\* ------------------------------------------- one versioned route in detail
\* the call's only versioned router, handing out at most one route, of any
\* registration
ProcessDetailedRouterEnter ==
  /\ visited = 0
  /\ ProcessVersionedRouterEnterOver(DetailedVersionedRoutes, 1)

NextHandlers ==
  \/ Generate(Undefined)
  \/ ProcessDetailedRouterEnter
  \/ ProcessVersionedRouterIterate
  \/ ProcessVersionedRouterLeave
  \/ Return

SpecHandlers == Init /\ [][NextHandlers]_vars

\* ----------------------------------------- one unversioned route in detail
\* the call's only router, handing out at most one route, of any registration
ProcessDetailedRouteEnter ==
  /\ visited = 0
  /\ ProcessRouterEnterOver(DetailedRoutes, 1)

NextRoutes ==
  \/ Generate(Undefined)
  \/ ProcessDetailedRouteEnter
  \/ ProcessRouterIterate
  \/ ProcessRouterLeave
  \/ Return

SpecRoutes == Init /\ [][NextRoutes]_vars

\* ------------------------------------------------- the document envelope
\* a call with any options and at most one router of at most one route
GenerateWithOptions ==
  \E filter \in ReplayFilters, options \in OptionsGiven :
    GenerateWith(filter, options)

ProcessOnlyRouterEnter ==
  /\ visited = 0
  /\ ProcessRouterEnterOver(ReplayRoutes, 1)

ProcessOnlyVersionedRouterEnter ==
  /\ visited = 0
  /\ ProcessVersionedRouterEnterOver(ReplayVersionedRoutes, 1)

NextEnvelope ==
  \/ GenerateWithOptions
  \/ ProcessOnlyRouterEnter
  \/ ProcessOnlyVersionedRouterEnter
  \/ ProcessRouterIterate
  \/ ProcessRouterLeave
  \/ ProcessVersionedRouterIterate
  \/ ProcessVersionedRouterLeave
  \/ Return

SpecEnvelope == Init /\ [][NextEnvelope]_vars

\* ------------------------------------------ a caller that calls repeatedly
\* its first call: what getRoutes(true) of its next router hands out becomes
\* part of the appRouters it passes again later
RecordRouterEnter ==
  /\ generation = 0
  /\ pc = "routers"
  /\ \E rs \in RouteLists(ReplayRoutes, MaxRoutes - handedOut) :
       /\ EnterRouter(rs, "processRouter")
       /\ appRouters' = [appRouters EXCEPT !.routers = Append(@, rs)]
  /\ UNCHANGED <<generation, previous>>

\* the same for its next versioned router
RecordVersionedRouterEnter ==
  /\ generation = 0
  /\ pc \in {"routers", "versionedRouters"}
  /\ \E rs \in RouteLists(ReplayVersionedRoutes, MaxRoutes - handedOut) :
       /\ EnterRouter(rs, "processVersionedRouter")
       /\ appRouters' = [appRouters EXCEPT !.versionedRouters = Append(@, rs)]
  /\ UNCHANGED <<generation, previous>>

\* a later call: for (const router of appRouters.routers) over the same
\* routers
ReplayRouterEnter ==
  /\ generation > 0
  /\ pc = "routers"
  /\ visited < Len(appRouters.routers)
  /\ EnterRouter(appRouters.routers[visited + 1], "processRouter")
  /\ UNCHANGED replayVars

\* a later call: for (const router of appRouters.versionedRouters)
ReplayVersionedRouterEnter ==
  LET done == visited - Len(appRouters.routers)
  IN /\ generation > 0
     /\ pc \in {"routers", "versionedRouters"}
     /\ done >= 0
     /\ done < Len(appRouters.versionedRouters)
     /\ EnterRouter(appRouters.versionedRouters[done + 1],
                    "processVersionedRouter")
     /\ UNCHANGED replayVars

\* the call returns once both loops are over
ReplayReturn ==
  /\ generation > 0 =>
       visited = Len(appRouters.routers) + Len(appRouters.versionedRouters)
  /\ Return

\* a later call that would start from fresh operation-id counters
GenerateAgain_FreshCounters ==
  /\ pc \in {"returned", "threw"}
  /\ generation + 1 < MaxGenerations
  /\ generation' = generation + 1
  /\ previous' = document
  /\ pc' = "routers"
  /\ operationIdCounters' = EmptyObject
  /\ startCounters' = EmptyObject
  /\ paths' = EmptyObject
  /\ routerPaths' = EmptyObject
  /\ routes' = <<>>
  /\ route' = Undefined
  /\ pathItem' = Undefined
  /\ error' = Undefined
  /\ document' = Undefined
  /\ offered' = EmptyObject
  /\ handedOut' = 0
  /\ visited' = 0
  /\ UNCHANGED <<pathStartsWith, opts, appRouters>>
  /\ UNCHANGED <<allocVars, registryVars, componentVars>>

\* the caller calls generateOpenApiDocument again, with the same arguments
GenerateAgain ==
  /\ pc \in {"returned", "threw"}
  /\ generation + 1 < MaxGenerations
  /\ generation' = generation + 1
  /\ previous' = document
  /\ pc' = "routers"
  /\ startCounters' = operationIdCounters
  /\ paths' = EmptyObject
  /\ routerPaths' = EmptyObject
  /\ routes' = <<>>
  /\ route' = Undefined
  /\ pathItem' = Undefined
  /\ error' = Undefined
  /\ document' = Undefined
  /\ offered' = EmptyObject
  /\ handedOut' = 0
  /\ visited' = 0
  /\ UNCHANGED <<operationIdCounters, pathStartsWith, opts, appRouters>>
  /\ UNCHANGED <<allocVars, registryVars, componentVars>>

NextReplay ==
  \/ \E filter \in ReplayFilters : Generate(filter)
  \/ RecordRouterEnter
  \/ RecordVersionedRouterEnter
  \/ ReplayRouterEnter
  \/ ReplayVersionedRouterEnter
  \/ ProcessRouterIterate
  \/ ProcessRouterLeave
  \/ ProcessVersionedRouterIterate
  \/ ProcessVersionedRouterLeave
  \/ ReplayReturn
  \/ GenerateAgain

SpecReplay == Init /\ [][NextReplay]_vars

\* ------------------------------------------------- DocViewsRegistry calls
\* a DocViewsRegistry call: its method, the registry it is made on (for a
\* constructor the registry it is given, or 0) and the id it is about
Call(method, registry, id) ==
  Some([method |-> method, registry |-> registry, id |-> id])

\* new DocViewsRegistry(initialValue) makes one more registry
Construct(initialValue, source, method) ==
  LET made == Constructor(maps, initialValue)
      all == Append(registries, [docViews |-> made.docViews])
  IN /\ Len(registries) < MaxRegistries
     /\ registries' = Renamed(all)
     /\ maps' = Collect(made.maps, all)
     /\ registryError' = Undefined
     /\ registryCall' = Call(method, source, Undefined)
     /\ registrySource' = Append(registrySource, source)
     /\ UNCHANGED <<operationIdCounters, callVars, allocVars, replayVars,
                  componentVars>>

\* new DocViewsRegistry() and new DocViewsRegistry(docViews)
NewRegistry ==
  \/ Construct(FromNothing, 0, "new")
  \/ \E array \in DocViewArrays : Construct(FromArray(array), 0, "new")

\* new DocViewsRegistry(registry)
NewRegistryFrom(i) ==
  Construct(FromRegistry(registries[i].docViews), i, "new")

\* registry.clone() makes one more registry
RegistryClone(i) ==
  LET made == Clone(maps, registries[i].docViews)
      all == Append(registries, [docViews |-> made.docViews])
  IN /\ Len(registries) < MaxRegistries
     /\ registries' = Renamed(all)
     /\ maps' = Collect(made.maps, all)
     /\ registryError' = Undefined
     /\ registryCall' = Call("clone", i, Undefined)
     /\ registrySource' = Append(registrySource, i)
     /\ UNCHANGED <<operationIdCounters, callVars, allocVars, replayVars,
                  componentVars>>

\* registry.add(docViewRaw), which throws for an id already registered
RegistryAdd(i, docViewRaw) ==
  LET added == Add(maps, registries[i].docViews, docViewRaw)
      all == [registries EXCEPT ![i] = [docViews |-> added.docViews]]
  IN /\ registries' = Renamed(all)
     /\ maps' = Collect(added.maps, all)
     /\ registryError' = added.error
     /\ registryCall' = Call("add", i, Some(Resolve(docViewRaw).id))
     /\ UNCHANGED registrySource
     /\ UNCHANGED <<operationIdCounters, callVars, allocVars, replayVars,
                  componentVars>>

\* registry.removeById(id)
RegistryRemoveById(i, id) ==
  /\ maps' = RemoveById(maps, registries[i].docViews, id)
  /\ registryError' = Undefined
  /\ registryCall' = Call("removeById", i, Some(id))
  /\ UNCHANGED <<registries, registrySource>>
  /\ UNCHANGED <<operationIdCounters, callVars, allocVars, replayVars,
                  componentVars>>

NextRegistry ==
  \/ NewRegistry
  \/ \E i \in DOMAIN registries : NewRegistryFrom(i)
  \/ \E i \in DOMAIN registries : RegistryClone(i)
  \/ \E i \in DOMAIN registries, docView \in DocViews :
       RegistryAdd(i, Given(docView))
  \/ \E i \in DOMAIN registries, docView \in DocViews :
       RegistryAdd(i, Factory(docView))
  \/ \E i \in DOMAIN registries, id \in DocViewIds : RegistryRemoveById(i, id)

SpecRegistry == Init /\ [][NextRegistry]_vars

\* ------------------------------------------------ legacyGetMonitorStates
\* legacyGetMonitorStates(request, ...) is entered
LegacyGetMonitorStates(db, filter) ==
  /\ statesPc = "idle"
  /\ statesPc' = "query"
  /\ database' = db
  /\ statusFilter' = filter
  /\ searchAfter' = Null
  /\ monitors' = <<>>
  /\ queries' = <<>>
  /\ summaries' = Undefined
  /\ UNCHANGED <<operationIdCounters, callVars, allocVars, replayVars,
                 registryVars, scriptVars, chartVars>>

\* one pass of the do-while loop
StatesQuery ==
  LET answer == RunLegacyMonitorStatesQuery(database, statusFilter, searchAfter)
      pushed == monitors \o GetMonitorBuckets(answer.result, answer.statusFilter)
  IN /\ statesPc = "query"
     /\ monitors' = pushed
     /\ searchAfter' = answer.afterKey
     /\ queries' = Append(queries, [searchAfter |-> searchAfter,
                                    afterKey |-> answer.afterKey,
                                    length |-> Len(pushed)])
     /\ statesPc' = IF Continues(answer.afterKey, pushed)
                    THEN "query" ELSE "summaries"
     /\ UNCHANGED <<database, statusFilter, summaries>>
     /\ UNCHANGED <<operationIdCounters, callVars, allocVars, replayVars,
                    registryVars, scriptVars, chartVars>>

\* the summaries are built and returned
StatesReturn ==
  /\ statesPc = "summaries"
  /\ summaries' = Some(Summaries(monitors))
  /\ statesPc' = "returned"
  /\ UNCHANGED <<database, statusFilter, searchAfter, monitors, queries>>
  /\ UNCHANGED <<operationIdCounters, callVars, allocVars, replayVars,
                 registryVars, scriptVars, chartVars>>

NextStates ==
  \/ \E db \in Databases, filter \in StatusFilters :
       LegacyGetMonitorStates(db, filter)
  \/ StatesQuery
  \/ StatesReturn

\* every query is answered, and the call returns once its loop has ended
SpecStates ==
  /\ Init
  /\ [][NextStates]_vars
  /\ WF_vars(StatesQuery)
  /\ WF_vars(StatesReturn)

\* ------------------------------------------------- the scripted metric runs
\* documents visited so far, over all shards
RECURSIVE Visited(_)
Visited(shard) ==
  IF shard = 0 THEN 0 ELSE Cardinality(mapped[shard]) + Visited(shard - 1)

\* map_script visits a document on a shard
Map(shard, doc) ==
  /\ reduced = Undefined
  /\ doc \notin mapped[shard]
  /\ Visited(MaxShards) < MaxDocs
  /\ states' = [states EXCEPT ![shard] = MapScript(@, doc)]
  /\ mapped' = [mapped EXCEPT ![shard] = @ \cup {doc}]
  /\ UNCHANGED reduced
  /\ UNCHANGED <<operationIdCounters, callVars, allocVars, replayVars,
                 registryVars, statesVars, chartVars>>

\* combine_script returns every state; reduce_script is handed them
Reduce(order) ==
  /\ reduced = Undefined
  /\ reduced' = Some(ReduceScript([i \in 1..MaxShards |-> states[order[i]]]))
  /\ UNCHANGED <<states, mapped>>
  /\ UNCHANGED <<operationIdCounters, callVars, allocVars, replayVars,
                 registryVars, statesVars, chartVars>>

NextMetric ==
  \/ \E shard \in 1..MaxShards, doc \in Docs : Map(shard, doc)
  \/ \E order \in ShardOrders : Reduce(order)

SpecMetric == Init /\ [][NextMetric]_vars

\* ------------------------------------------------------ DocCountChart runs
\* a call of loadData: its argument, who made it, whether it started a load,
\* the loads in flight and the progress of the last started load before it,
\* and for a call from a timer how long the timer had waited
LoadDataCall(progress, by, waited) ==
  Some([progress |-> progress, by |-> by,
        started |-> LoadDataStarts(timeFieldName),
        inFlight |-> inFlight,
        since |-> IF lastLoadData = Undefined THEN 0
                  ELSE IF The(lastLoadData).started
                       THEN The(lastLoadData).progress
                       ELSE The(lastLoadData).since,
        waited |-> waited])

\* the chart is rendered with other mappings before the upload has begun:
\* timeFieldName is recomputed
SetMappings(mappings) ==
  /\ uploadProgress = 0
  /\ timeFieldName' = TimeFieldName(mappings)
  /\ UNCHANGED <<uploadProgress, loading, finished, previousProgress, inFlight,
                 timers, sequences, finalCalls, lastLoadData>>
  /\ UNCHANGED <<operationIdCounters, callVars, allocVars, replayVars,
                 registryVars, statesVars, scriptVars>>

\* the chart is rendered with statuses whose uploadProgress has grown
SetStatuses(progress) ==
  /\ progress > uploadProgress
  /\ uploadProgress' = progress
  /\ UNCHANGED <<timeFieldName, loading, finished, previousProgress, inFlight,
                 timers, sequences, finalCalls, lastLoadData>>
  /\ UNCHANGED <<operationIdCounters, callVars, allocVars, replayVars,
                 registryVars, statesVars, scriptVars>>

\* the effect runs after a render and loads: setPreviousProgress, loadData
UseEffectLoads ==
  /\ EffectLoads(loading, uploadProgress, previousProgress)
  /\ previousProgress' = uploadProgress
  /\ loading' = IF LoadDataStarts(timeFieldName) THEN TRUE ELSE loading
  /\ inFlight' = IF LoadDataStarts(timeFieldName) THEN inFlight + 1 ELSE inFlight
  /\ lastLoadData' = LoadDataCall(uploadProgress, "effect", Undefined)
  /\ UNCHANGED <<timeFieldName, uploadProgress, finished, timers, sequences,
                 finalCalls>>
  /\ UNCHANGED <<operationIdCounters, callVars, allocVars, replayVars,
                 registryVars, statesVars, scriptVars>>

\* the effect runs after a render and finishes: setFinished(true),
\* finishedChecks(FINISHED_CHECKS)
UseEffectFinishes ==
  /\ EffectFinishes(loading, uploadProgress, finished)
  /\ sequences < MaxSequences
  /\ finished' = TRUE
  /\ sequences' = sequences + 1
  /\ finalCalls' = finalCalls + 1
  /\ loading' = IF LoadDataStarts(timeFieldName) THEN TRUE ELSE loading
  /\ inFlight' = IF LoadDataStarts(timeFieldName) THEN inFlight + 1 ELSE inFlight
  /\ lastLoadData' = LoadDataCall(100, "effect", Undefined)
  /\ timers' = timers \cup FinishedChecks(FINISHED_CHECKS)
  /\ UNCHANGED <<timeFieldName, uploadProgress, previousProgress>>
  /\ UNCHANGED <<operationIdCounters, callVars, allocVars, replayVars,
                 registryVars, statesVars, scriptVars>>

\* a second passes
Tick ==
  /\ \E t \in timers : t.elapsed < t.delay
  /\ timers' = {[t EXCEPT !.elapsed = IF @ < t.delay THEN @ + 1000 ELSE @] :
                  t \in timers}
  /\ UNCHANGED <<timeFieldName, uploadProgress, loading, finished,
                 previousProgress, inFlight, sequences, finalCalls,
                 lastLoadData>>
  /\ UNCHANGED <<operationIdCounters, callVars, allocVars, replayVars,
                 registryVars, statesVars, scriptVars>>

\* a timer fires: finishedChecks(counter - 1)
TimerFires(t) ==
  /\ t.elapsed >= t.delay
  /\ finalCalls' = finalCalls + 1
  /\ loading' = IF LoadDataStarts(timeFieldName) THEN TRUE ELSE loading
  /\ inFlight' = IF LoadDataStarts(timeFieldName) THEN inFlight + 1 ELSE inFlight
  /\ lastLoadData' = LoadDataCall(100, "timer", Some(t.elapsed))
  /\ timers' = (timers \ {t}) \cup FinishedChecks(t.counter)
  /\ UNCHANGED <<timeFieldName, uploadProgress, finished, previousProgress,
                 sequences>>
  /\ UNCHANGED <<operationIdCounters, callVars, allocVars, replayVars,
                 registryVars, statesVars, scriptVars>>

\* a timer that is due fires
ATimerFires == \E t \in timers : TimerFires(t)

\* the requests of a load are answered: setLoading(false)
LoadResolves ==
  /\ inFlight > 0
  /\ inFlight' = inFlight - 1
  /\ loading' = FALSE
  /\ UNCHANGED <<timeFieldName, uploadProgress, finished, previousProgress,
                 timers, sequences, finalCalls, lastLoadData>>
  /\ UNCHANGED <<operationIdCounters, callVars, allocVars, replayVars,
                 registryVars, statesVars, scriptVars>>

\* a request of a load fails: loadData never reaches setLoading(false)
LoadRejects ==
  /\ inFlight > 0
  /\ inFlight' = inFlight - 1
  /\ UNCHANGED <<timeFieldName, uploadProgress, loading, finished,
                 previousProgress, timers, sequences, finalCalls, lastLoadData>>
  /\ UNCHANGED <<operationIdCounters, callVars, allocVars, replayVars,
                 registryVars, statesVars, scriptVars>>

NextChart ==
  \/ \E mappings \in Mappings : SetMappings(mappings)
  \/ \E progress \in Progress : SetStatuses(progress)
  \/ UseEffectLoads
  \/ UseEffectFinishes
  \/ Tick
  \/ ATimerFires
  \/ LoadResolves
  \/ LoadRejects

\* time passes and a timer that is due fires
SpecChart ==
  /\ Init
  /\ [][NextChart]_vars
  /\ WF_vars(Tick)
  /\ WF_vars(ATimerFires)

\* ------------------------------------------- the allocator driven directly
OperationNames == {<<"/", "a">>, <<"/", "a", "1">>, <<"/", "a", "#", "1">>}

\* calls made so far, over all names
RECURSIVE SumOver(_, _)
SumOver(f, keys) ==
  IF keys = {} THEN 0
  ELSE LET k == CHOOSE x \in keys : TRUE
       IN f[k] + SumOver(f, keys \ {k})

CallsMade == SumOver(calls, DOMAIN calls)

\* getOperationId(name) is called
CallGetOperationId(name) ==
  LET allocated == GetOperationId(operationIdCounters, name)
  IN /\ CallsMade < MaxCalls
     /\ operationIdCounters' = allocated.counters
     /\ calls' = ObjectAssign(calls, [k \in {name} |-> CounterOf(calls, name) + 1])
     /\ lastCall' = Some([name |-> name, id |-> allocated.id])
     /\ returnedIds' = returnedIds \cup {allocated.id}
     /\ UNCHANGED <<callVars, replayVars, registryVars, componentVars>>

NextAlloc == \E name \in OperationNames : CallGetOperationId(name)

SpecAlloc == Init /\ [][NextAlloc]_vars

\* ===================================================================== claims
\* the route of the last loop iteration was a versioned one and was built
VersionedBuilt ==
  /\ route # Undefined
  /\ pathItem # Undefined
  /\ "handlers" \in DOMAIN The(route)

\* the operation the last loop iteration built
LastOperation == The(pathItem)[The(route).method]

\* what handler h declares for request field f, read off the registration
Declared(h, f) ==
  IF h.validate = Undefined THEN Undefined
  ELSE IF The(h.validate).request = Undefined THEN Undefined
  ELSE The(The(h.validate).request)[f]

\* the response schemas handler h declares, by status code
DeclaredResponses(h) ==
  IF h.validate = Undefined THEN EmptyObject
  ELSE IF The(h.validate).response = Undefined THEN EmptyObject
  ELSE The(The(h.validate).response)

\* the positions of the handlers no other handler is newer than
NewestPositions(hs) ==
  {i \in 1..Len(hs) : \A j \in 1..Len(hs) : hs[j].version <= hs[i].version}

\* C1: a method a path holds in the document's paths is still held by that
\* path after every later step of the call (no router's contribution is lost).
C1_MethodsNeverLost ==
  [][\A p \in DOMAIN paths :
       /\ p \in DOMAIN paths'
       /\ DOMAIN paths[p] \subseteq DOMAIN paths'[p]]_vars

\* C2: in a returned document no two operations carry the same operationId.
C2_OperationIdsUnique ==
  document # Undefined =>
    LET ps == The(document).paths
    IN \A p \in DOMAIN ps, q \in DOMAIN ps :
         \A m \in DOMAIN ps[p], n \in DOMAIN ps[q] :
           <<p, m>> # <<q, n>> => ps[p][m].operationId # ps[q][n].operationId

\* C2 witness: a returned document whose versioned operations GET and POST of
\* one path carry /a#1 and /a#2, /a#0 having gone to an earlier router's route.
C2_Witness ==
  /\ document # Undefined
  /\ visited = 2
  /\ \E p \in DOMAIN The(document).paths :
       LET item == The(document).paths[p]
       IN /\ DOMAIN item = {"get", "post"}
          /\ {item["get"].operationId, item["post"].operationId}
               = {<<"/", "a", "#", "1">>, <<"/", "a", "#", "2">>}
          /\ GetJSONContentString \notin DOMAIN The(item["get"].requestBody).content

\* C3: the k-th direct call for a name returns name#k, whatever calls for other
\* names came in between, and no id is returned twice.
C3_AllocatorSequence ==
  /\ lastCall # Undefined =>
       The(lastCall).id = The(lastCall).name \o <<"#">>
                            \o NumberToString(calls[The(lastCall).name] - 1)
  /\ Cardinality(returnedIds) = CallsMade

\* C3 witness: the third call for /a returns /a#2 after calls for other names.
C3_Witness ==
  /\ lastCall = Some([name |-> <<"/", "a">>, id |-> <<"/", "a", "#", "2">>])
  /\ CounterOf(calls, <<"/", "a", "1">>) = 2
  /\ CounterOf(calls, <<"/", "a", "#", "1">>) = 1

\* C3 witness of a two-digit suffix: the eleventh call for /a returns /a#10.
C3_WitnessTwoDigits ==
  /\ lastCall = Some([name |-> <<"/", "a">>, id |-> <<"/", "a", "#", "1", "0">>])
  /\ <<"/", "a", "1", "#", "0">> \in returnedIds

\* C4: the parameters of a versioned route's operation are exactly the
\* converted params then query schemas of its newest handler.
C4_ParametersFromNewest ==
  VersionedBuilt =>
    LET hs == The(route).handlers
    IN /\ hs = <<>> => LastOperation.parameters = <<>>
       /\ \A i \in NewestPositions(hs) :
            LastOperation.parameters =
              (IF Declared(hs[i], "params") = Undefined THEN <<>>
               ELSE ConvertPathParameters(The(Declared(hs[i], "params"))))
              \o (IF Declared(hs[i], "query") = Undefined THEN <<>>
                  ELSE ConvertQuery(The(Declared(hs[i], "query"))))

\* C4 witness: the newest handler is registered last, and it and the first
\* handler both declare params and query schemas.
C4_Witness ==
  /\ VersionedBuilt
  /\ Len(The(route).handlers) = 3
  /\ NewestPositions(The(route).handlers) = {3}
  /\ Declared(The(route).handlers[1], "params") # Undefined
  /\ Declared(The(route).handlers[3], "query") # Undefined
  /\ Len(LastOperation.parameters) = 2

\* the content keys of the handlers that declare a request body schema
BodyKeys(hs) ==
  {GetVersionedContentString(hs[i].version) :
     i \in {j \in 1..Len(hs) : Declared(hs[j], "body") # Undefined}}

\* C5: requestBody.content of a versioned route holds exactly one key per
\* handler declaring a request body schema, with that handler's converted body.
C5_OneKeyPerBodyHandler ==
  (VersionedBuilt /\ LastOperation.requestBody # Undefined) =>
    LET hs == The(route).handlers
        content == The(LastOperation.requestBody).content
    IN /\ DOMAIN content = BodyKeys(hs)
       /\ \A i \in 1..Len(hs) :
            Declared(hs[i], "body") # Undefined =>
              content[GetVersionedContentString(hs[i].version)]
                = [schema |-> Convert(Declared(hs[i], "body"))]

\* C6: every handler declaring a request body schema has its key in the
\* operation's requestBody.content, whichever handler is the newest.
C6_BodyUnionOverVersions ==
  VersionedBuilt =>
    LET hs == The(route).handlers
    IN \A i \in 1..Len(hs) :
         Declared(hs[i], "body") # Undefined =>
           /\ LastOperation.requestBody # Undefined
           /\ GetVersionedContentString(hs[i].version)
                \in DOMAIN The(LastOperation.requestBody).content

\* C7: a versioned route's operation has a requestBody only if some handler
\* declares a request body schema.
C7_RequestBodyOnlyIfDeclared ==
  (VersionedBuilt /\ LastOperation.requestBody # Undefined) =>
    \E i \in 1..Len(The(route).handlers) :
      Declared(The(route).handlers[i], "body") # Undefined

\* C7 witness: three handlers, the newest registered first, and a requestBody.
C7_Witness ==
  /\ VersionedBuilt
  /\ Len(The(route).handlers) = 3
  /\ NewestPositions(The(route).handlers) = {1}
  /\ LastOperation.requestBody # Undefined

\* C7 witness of the other case: handlers with params and query schemas but no
\* body anywhere, and no requestBody.
C7_WitnessNoBody ==
  /\ VersionedBuilt
  /\ Len(The(route).handlers) = 2
  /\ \A i \in 1..2 : /\ Declared(The(route).handlers[i], "params") # Undefined
                      /\ Declared(The(route).handlers[i], "body") = Undefined
  /\ LastOperation.requestBody = Undefined

\* C8: every status code a handler declares holds that handler's content key
\* with its converted schema, and every response's description is the route's
\* description or 'No description'.
C8_ResponsesMerged ==
  VersionedBuilt =>
    LET hs == The(route).handlers
        responses == LastOperation.responses
        description == IF The(route).description = Undefined
                       THEN <<"No description">>
                       ELSE The(The(route).description)
    IN /\ \A i \in 1..Len(hs) :
            \A statusCode \in DOMAIN DeclaredResponses(hs[i]) :
              /\ statusCode \in DOMAIN responses
              /\ GetVersionedContentString(hs[i].version)
                   \in DOMAIN responses[statusCode].content
              /\ responses[statusCode].content[GetVersionedContentString(hs[i].version)]
                   = [schema |-> Convert(DeclaredResponses(hs[i])[statusCode])]
       /\ \A statusCode \in DOMAIN responses :
            responses[statusCode].description = description

\* C8 witness: three handlers all declaring status 200, one also 404, on a route
\* without a description.
C8_Witness ==
  /\ VersionedBuilt
  /\ The(route).description = Undefined
  /\ Len(The(route).handlers) = 3
  /\ \A i \in 1..3 : "200" \in DOMAIN DeclaredResponses(The(route).handlers[i])
  /\ "404" \in DOMAIN DeclaredResponses(The(route).handlers[1])
  /\ Cardinality(DOMAIN LastOperation.responses["200"].content) = 3
  /\ LastOperation.responses["404"].description = <<"No description">>

\* a path passes the filter of the running call
Passes(p) ==
  pathStartsWith = Undefined \/ StartsWith(p, The(pathStartsWith))

\* C9: the keys of the returned paths map are exactly the keys of the routes
\* whose path starts with pathStartsWith (all routes when it is not given).
C9_FilterByPrefix ==
  pc = "returned" =>
    DOMAIN The(document).paths
      = {ReplaceFirst(p, "?") : p \in {q \in DOMAIN offered : Passes(q)}}

\* C9 witness: with the prefix /a, the route /A is absent and /a? is present.
C9_Witness ==
  /\ pc = "returned"
  /\ pathStartsWith = Some(<<"/", "a">>)
  /\ DOMAIN offered = {<<"/", "A">>, <<"/", "a", "?">>}
  /\ DOMAIN The(document).paths = {<<"/", "a">>}

\* C9 witness without a filter: a returned document holding /A and /a.
C9_WitnessNoFilter ==
  /\ pc = "returned"
  /\ pathStartsWith = Undefined
  /\ DOMAIN The(document).paths = {<<"/", "A">>, <<"/", "a">>}

\* a path without its trailing '?'
WithoutTrailingQuestionMark(p) ==
  IF p # <<>> /\ p[Len(p)] = "?" THEN SubSeq(p, 1, Len(p) - 1) ELSE p

\* the routers handed out pairwise distinct paths and no filter is set
DistinctUnfiltered ==
  /\ pc = "returned"
  /\ pathStartsWith = Undefined
  /\ \A p \in DOMAIN offered : offered[p] = 1

\* C10 as stated: every input path without its trailing '?' is a key.
C10_TrailingStripped ==
  DistinctUnfiltered =>
    \A p \in DOMAIN offered :
      WithoutTrailingQuestionMark(p) \in DOMAIN The(document).paths

\* C10 amended: every input path without its first '?' is a key.
C10_FirstStripped ==
  DistinctUnfiltered =>
    \A p \in DOMAIN offered : ReplaceFirst(p, "?") \in DOMAIN The(document).paths

\* C10 witness: three distinct paths, one with a trailing and one with an inner
\* '?', all present under their keys.
C10_Witness ==
  /\ DistinctUnfiltered
  /\ DOMAIN offered = {<<"/", "A">>, <<"/", "a", "?">>, <<"/", "a", "?", "b">>}
  /\ DOMAIN The(document).paths = {<<"/", "A">>, <<"/", "a">>, <<"/", "a", "b">>}


\* the route of the last loop iteration was an unversioned one and was built
UnversionedBuilt ==
  /\ route # Undefined
  /\ pathItem # Undefined
  /\ "handlers" \notin DOMAIN The(route)

\* the status codes an unversioned route declares responses for
DeclaredStatusCodes(r) ==
  IF r.responses = Undefined THEN {} ELSE DOMAIN The(r.responses)

\* the unversioned route declares a body schema
DeclaresBody(r) ==
  /\ r.validate # Undefined
  /\ The(r.validate).body # Undefined

\* C11: an unversioned route's operation has a requestBody exactly when the
\* route declares a body schema, its content then having the single key
\* "application/json"; responses has exactly one entry per declared status
\* code, each with an "application/json" media-type entry; a route declaring
\* no responses yields an empty responses object
C11_BodyAndResponsesAsDeclared ==
  UnversionedBuilt =>
    LET r == The(route)
        op == LastOperation
    IN /\ (op.requestBody # Undefined) <=> DeclaresBody(r)
       /\ op.requestBody # Undefined =>
            DOMAIN The(op.requestBody).content = {<<"application/json">>}
       /\ DOMAIN op.responses = DeclaredStatusCodes(r)
       /\ \A statusCode \in DOMAIN op.responses :
            <<"application/json">> \in DOMAIN op.responses[statusCode].content
       /\ r.responses = Undefined => op.responses = EmptyObject

\* a route with a body schema and two declared status codes was built
C11_Witness ==
  /\ UnversionedBuilt
  /\ DeclaresBody(The(route))
  /\ DeclaredStatusCodes(The(route)) = {"200", "404"}
  /\ LastOperation.requestBody # Undefined

\* a route with neither body schema nor responses was built
C11_WitnessNothingDeclared ==
  /\ UnversionedBuilt
  /\ ~DeclaresBody(The(route))
  /\ The(route).responses = Undefined
  /\ LastOperation.requestBody = Undefined
  /\ LastOperation.responses = EmptyObject

\* the newest version among a versioned route's handlers, as the message
\* of its error names it
NewestVersionText(r) ==
  LET versions == {r.handlers[i].version : i \in 1..Len(r.handlers)}
  IN IF versions = {} THEN <<"undefined">>
     ELSE NumberToString(CHOOSE v \in versions : \A w \in versions : w <= v)

\* C12: an error raised while a route is processed reaches the caller with
\* its message prefixed by the route's path and, for a versioned route, by
\* the newest version too
C12_ErrorsNameTheRoute ==
  pc = "threw" =>
    /\ error # Undefined
    /\ LET r == The(route)
       IN IF "handlers" \in DOMAIN r
          THEN StartsWith(The(error),
                 <<"Error generating OpenAPI for route '">> \o r.path
                   \o <<"' using version '">> \o NewestVersionText(r)
                   \o <<"': ">>)
          ELSE StartsWith(The(error),
                 <<"Error generating OpenAPI for route '">> \o r.path
                   \o <<"': ">>)

\* what the k-th router visited in the running call handed out
RouterList(k) ==
  IF k <= Len(appRouters.routers) THEN appRouters.routers[k]
  ELSE appRouters.versionedRouters[k - Len(appRouters.routers)]

\* the routes among rs whose path starts with pathStartsWith
Kept(rs) == SelectSeq(rs, LAMBDA r : Passes(r.path))

\* the non-filtered routes of the first k routers, in iteration order
RECURSIVE KeptUpTo(_)
KeptUpTo(k) == IF k = 0 THEN <<>> ELSE KeptUpTo(k - 1) \o Kept(RouterList(k))

\* the routes the running call has processed without an error, in order
ProcessedSoFar ==
  LET reached == KeptUpTo(visited)
      taken == Len(reached) - Len(routes)
  IN IF pc = "threw" THEN SubSeq(reached, 1, taken - 1)
     ELSE SubSeq(reached, 1, taken)

\* the elements of a list
Range(list) == {list[i] : i \in 1..Len(list)}

\* every route the caller's routers hand out
InputRoutes ==
  UNION {Range(rs) : rs \in Range(appRouters.routers)
                             \cup Range(appRouters.versionedRouters)}

\* operation ids handed out since the running call was entered
AllocatedInCall ==
  SumOver(operationIdCounters, DOMAIN operationIdCounters)
    - SumOver(startCounters, DOMAIN startCounters)

\* C13: when a route throws the call throws, returns no document, and has
\* processed no route after the failing one; otherwise it returns a document
\* that holds the operation of every non-filtered route
C13_FailFastOrComplete ==
  /\ pc = "threw" =>
       /\ document = Undefined
       /\ error # Undefined
       /\ AllocatedInCall = Len(KeptUpTo(visited)) - Len(routes) - 1
  /\ pc = "returned" =>
       /\ document # Undefined
       /\ \A r \in InputRoutes :
            Passes(r.path) =>
              /\ PathName(r.path) \in DOMAIN The(document).paths
              /\ r.method \in DOMAIN The(document).paths[PathName(r.path)]

\* the fail-fast half of C13 alone
FailFast ==
  pc = "threw" =>
    /\ document = Undefined
    /\ error # Undefined
    /\ AllocatedInCall = Len(KeptUpTo(visited)) - Len(routes) - 1

\* the key-level reading of the other half: every non-filtered route's key
\* is in the returned document
EveryKeyReturned ==
  pc = "returned" =>
    /\ document # Undefined
    /\ \A r \in InputRoutes :
         Passes(r.path) => PathName(r.path) \in DOMAIN The(document).paths

\* how many of the caller's non-filtered routes have the raw path q
RoutesWithPath(q) ==
  LET all == KeptUpTo(Len(appRouters.routers) + Len(appRouters.versionedRouters))
  IN Cardinality({i \in 1..Len(all) : all[i].path = q})

\* a call returned a document with an operation, after the caller's
\* preceding call on the same input had returned one as well
ReturnedTwice ==
  /\ generation > 0
  /\ pc = "returned"
  /\ previous # Undefined
  /\ The(document).paths # EmptyObject

\* C14: the counters outlive a call: a call on the input of the preceding
\* call gives every operation an id that differs from the one the preceding
\* call gave it, its suffix being the earlier one plus the number of routes
\* of that path the preceding call processed
C14_CountersOutliveTheCall ==
  ReturnedTwice =>
    LET now == The(document).paths
        before == The(previous).paths
    IN /\ DOMAIN now = DOMAIN before
       /\ \A p \in DOMAIN now :
            /\ DOMAIN now[p] = DOMAIN before[p]
            /\ \A m \in DOMAIN now[p] :
                 /\ now[p][m].operationId # before[p][m].operationId
                 /\ \E r \in InputRoutes :
                      \E n \in 0..(MaxRoutes * MaxGenerations) :
                        /\ before[p][m].operationId
                             = r.path \o <<"#">> \o NumberToString(n)
                        /\ now[p][m].operationId
                             = r.path \o <<"#">>
                                 \o NumberToString(n + RoutesWithPath(r.path))

\* the second call gave GET /a the id /a#1, the first having given it /a#0
C14_Witness ==
  /\ ReturnedTwice
  /\ DOMAIN The(document).paths = {<<"/", "a">>}
  /\ DOMAIN The(document).paths[<<"/", "a">>] = {"get"}
  /\ The(previous).paths[<<"/", "a">>]["get"].operationId
       = <<"/", "a", "#", "0">>
  /\ The(document).paths[<<"/", "a">>]["get"].operationId
       = <<"/", "a", "#", "1">>

\* C15: the envelope of the returned document is a function of the options:
\* openapi "3.0.0", one server whose url is baseUrl, security basicAuth then
\* apiKeyAuth, the given tag names in order (undefined when tags is not
\* given), externalDocs exactly when docsUrl is a non-empty string
C15_EnvelopeFromOptions ==
  pc = "returned" =>
    LET d == The(document)
    IN /\ d.openapi = <<"3.0.0">>
       /\ d.servers = <<[url |-> opts.baseUrl]>>
       /\ d.security = <<[basicAuth |-> <<>>], [apiKeyAuth |-> <<>>]>>
       /\ (d.tags = Undefined) <=> (opts.tags = Undefined)
       /\ d.tags # Undefined =>
            /\ Len(The(d.tags)) = Len(The(opts.tags))
            /\ \A i \in 1..Len(The(d.tags)) :
                 The(d.tags)[i] = [name |-> The(opts.tags)[i]]
       /\ (d.externalDocs # Undefined)
            <=> (opts.docsUrl # Undefined /\ The(opts.docsUrl) # <<>>)
       /\ d.externalDocs # Undefined =>
            The(d.externalDocs) = [url |-> The(opts.docsUrl)]

\* a document with a route, tags y then x, and a docs url was returned
C15_Witness ==
  /\ pc = "returned"
  /\ The(document).paths # EmptyObject
  /\ The(document).tags = Some(<<[name |-> <<"y">>], [name |-> <<"x">>]>>)
  /\ The(document).externalDocs = Some([url |-> <<"h">>])

\* a document was returned for options with an empty docsUrl and no tags
C15_WitnessNothingGiven ==
  /\ pc = "returned"
  /\ opts.docsUrl = Some(<<>>)
  /\ opts.tags = Undefined
  /\ The(document).externalDocs = Undefined
  /\ The(document).tags = Undefined

\* the keys of every paths map of the running call
PathKeys ==
  DOMAIN routerPaths \cup DOMAIN paths
    \cup (IF document = Undefined THEN {} ELSE DOMAIN The(document).paths)

\* C16: no key of the paths map of processRouter, of processVersionedRouter
\* or of the document contains a '?', whatever '?' the route paths contain
C16_NoQuestionMarkInKeys ==
  \A key \in PathKeys : \A i \in 1..Len(key) : key[i] # "?"

\* the routes the running router pass has processed without an error
ProcessedInPass ==
  SubSeq(ProcessedSoFar, Len(KeptUpTo(visited - 1)) + 1, Len(ProcessedSoFar))

\* a processRouter or processVersionedRouter pass is running
InPass == pc \in {"processRouter", "processVersionedRouter"}

\* C17: within one processRouter or processVersionedRouter pass, every route
\* processed so far is a method key of the path-item of its normalized path,
\* and assigning a route leaves every operation stored under another method
\* of that path, and every other path, as it was
C17_SiblingMethodsKept ==
  [][InPass' =>
       /\ \A r \in Range(ProcessedInPass') :
            /\ ReplaceFirst(r.path, "?") \in DOMAIN routerPaths'
            /\ r.method \in DOMAIN routerPaths'[ReplaceFirst(r.path, "?")]
       /\ pc = pc' =>
            \A p \in DOMAIN routerPaths :
              /\ p \in DOMAIN routerPaths'
              /\ \A m \in DOMAIN routerPaths[p] :
                   /\ m \in DOMAIN routerPaths'[p]
                   /\ <<p, m>> # <<ReplaceFirst(The(route').path, "?"),
                                   The(route').method>>
                        => routerPaths'[p][m] = routerPaths[p][m]]_vars

\* one pass filed GET /a and POST /a? under the path-item of /a, next to the
\* path-item of another path
C17_Witness ==
  /\ InPass
  /\ Len(ProcessedInPass) = 3
  /\ <<"/", "a">> \in DOMAIN routerPaths
  /\ DOMAIN routerPaths[<<"/", "a">>] = {"get", "post"}
  /\ Cardinality(DOMAIN routerPaths) = 2

\* a router pass is over and its paths are assigned onto the document's
LeavingPass == InPass /\ pc' \in {"routers", "versionedRouters"}

\* C18 as stated: an operation stored under a method of a path stays as it
\* is when a later route of the pass, or a later router, brings that path
\* again
C18_StoredOperationKept ==
  [][/\ InPass /\ pc' = pc =>
          LET p == ReplaceFirst(The(route').path, "?")
              m == The(route').method
          IN (p \in DOMAIN routerPaths /\ m \in DOMAIN routerPaths[p]) =>
               routerPaths'[p][m] = routerPaths[p][m]
     /\ LeavingPass =>
          \A p \in DOMAIN paths \cap DOMAIN routerPaths :
            \A m \in DOMAIN paths[p] \cap DOMAIN routerPaths[p] :
              paths'[p][m] = paths[p][m]]_vars

\* C18 amended: the later entry wins: after a route is assigned, the method
\* of its path-item holds the operation just built, whether or not the
\* method was held before, and after a router pass every operation of the
\* pass is the one the document holds under its path and method
C18_LaterOperationWins ==
  [][/\ InPass /\ pc' = pc =>
          LET r == The(route')
          IN routerPaths'[ReplaceFirst(r.path, "?")][r.method]
               = The(pathItem')[r.method]
     /\ LeavingPass =>
          \A p \in DOMAIN routerPaths : \A m \in DOMAIN routerPaths[p] :
            /\ p \in DOMAIN paths'
            /\ m \in DOMAIN paths'[p]
            /\ paths'[p][m] = routerPaths[p][m]]_vars

\* one pass processed GET /a twice: the path-item holds the second operation
C18_Witness ==
  /\ InPass
  /\ Len(ProcessedInPass) = 2
  /\ ProcessedInPass[1] = ProcessedInPass[2]
  /\ ProcessedInPass[1].path = <<"/", "a">>
  /\ DOMAIN routerPaths[<<"/", "a">>] = {"get"}
  /\ routerPaths[<<"/", "a">>]["get"].operationId = <<"/", "a", "#", "1">>

\* two routers brought GET /a: the document holds the second router's
C18_WitnessAcrossRouters ==
  /\ pc = "routers"
  /\ visited = 2
  /\ Len(ProcessedSoFar) = 2
  /\ ProcessedSoFar[1] = ProcessedSoFar[2]
  /\ ProcessedSoFar[1].path = <<"/", "a">>
  /\ paths[<<"/", "a">>]["get"].operationId = <<"/", "a", "#", "1">>

\* how many of the routes processed so far in the running call have the raw
\* path q
ProcessedWithPath(q) ==
  Cardinality({i \in 1..Len(ProcessedSoFar) : ProcessedSoFar[i].path = q})

\* C19: at every point of a call, the counter of each raw path has grown by
\* the number of routes of that path processed so far: a route removed by
\* the filter and a route that throws consume nothing, and what the routes
\* before a failure consumed stays consumed
C19_OneIdPerProcessedRoute ==
  \A q \in {r.path : r \in InputRoutes} \cup DOMAIN operationIdCounters :
    CounterOf(operationIdCounters, q) - CounterOf(startCounters, q)
      = ProcessedWithPath(q)

\* a second call threw after it had processed two routes of different raw
\* paths under one key
C19_Witness ==
  /\ pc = "threw"
  /\ generation = 1
  /\ Len(ProcessedSoFar) = 2
  /\ ProcessedWithPath(<<"/", "a">>) = 1
  /\ ProcessedWithPath(<<"/", "a", "?">>) = 1
  /\ operationIdCounters[<<"/", "a">>] = 2
  /\ paths = EmptyObject

\* a call returned whose filter had removed a route: its path has no counter
C19_WitnessFiltered ==
  /\ pc = "returned"
  /\ pathStartsWith # Undefined
  /\ \E r \in InputRoutes :
       ~Passes(r.path) /\ r.path \notin DOMAIN operationIdCounters
  /\ The(document).paths # EmptyObject

\* a list of doc views in non-decreasing order of their order field
InOrder(docViews) ==
  \A i, j \in 1..Len(docViews) :
    i < j => docViews[i].order <= docViews[j].order

\* C20: getAll of every registry, however it was constructed and whatever
\* add, removeById and clone calls followed, returns the doc views in
\* non-decreasing order of their order field
C20_GetAllInOrder ==
  \A i \in DOMAIN registries : InOrder(GetAll(maps, registries[i].docViews))

\* what getAll of registry i returns
AllOf(i) == GetAll(maps, registries[i].docViews)

\* what getAll of registry i returns after the step
AllOfNext(i) == GetAll(maps', registries'[i].docViews)

\* no two doc views of a list have the same id
NoTwoWithOneId(docViews) ==
  \A i, j \in 1..Len(docViews) : docViews[i].id = docViews[j].id => i = j

\* getAll of no registry contains two doc views with the same id
NoRegistryWithTwo == \A i \in DOMAIN registries : NoTwoWithOneId(AllOf(i))

\* a call on a registry that holds the id it is about throws the error naming
\* that id if it is an add, a call on one that does not hold it throws nothing
\* if it is a removeById, and both leave getAll of that registry as it was
RejectedCallsChangeNothing ==
  registryCall' # Undefined /\ The(registryCall').id # Undefined =>
    LET call == The(registryCall')
        id == The(call.id)
        before == AllOf(call.registry)
    IN /\ call.method = "add" /\ MapHas(before, id) =>
            /\ registryError' = Some(AlreadyRegistered(id))
            /\ AllOfNext(call.registry) = before
       /\ call.method = "removeById" /\ ~MapHas(before, id) =>
            /\ registryError' = Undefined
            /\ AllOfNext(call.registry) = before

\* C21: add of a doc view, given directly or produced by a factory, whose id
\* is already registered throws an error naming that id and leaves the
\* registry as it was; getAll never contains two doc views with the same id;
\* removeById of an unregistered id is a no-op that does not throw
C21_DuplicateAddRejected ==
  /\ []NoRegistryWithTwo
  /\ [][RejectedCallsChangeNothing]_vars

\* add of a doc view with the id a threw on a registry that holds two doc
\* views, the one with the id a last
C21_Witness ==
  /\ registryCall = Call("add", 1, Some("a"))
  /\ registryError = Some(AlreadyRegistered("a"))
  /\ Len(AllOf(1)) = 2
  /\ AllOf(1)[2].id = "a"

\* removeById of an id no doc view has was called on a registry that holds
\* doc views
C21_WitnessRemoveUnregistered ==
  /\ registryCall = Call("removeById", 1, Some("c"))
  /\ registryError = Undefined
  /\ Len(AllOf(1)) = 2

\* the registry a step constructs from another one returns from getAll what
\* that one does, and an add or removeById leaves getAll of every registry
\* other than its own as it was
CopiesAreIndependent ==
  registryCall' # Undefined =>
    LET call == The(registryCall')
    IN /\ call.method \in {"new", "clone"} /\ call.registry # 0
            /\ Len(registries') = Len(registries) + 1 =>
            /\ AllOfNext(Len(registries')) = AllOf(call.registry)
            /\ AllOfNext(call.registry) = AllOf(call.registry)
       /\ call.method \in {"add", "removeById"} =>
            \A j \in DOMAIN registries \ {call.registry} :
              AllOfNext(j) = AllOf(j)

\* C22: clone, and construction from another registry, yields a registry
\* whose getAll initially equals the source's and which is independent of
\* it: a later add or removeById on either leaves getAll of the other
\* unchanged
C22_CloneIsIndependent == [][CopiesAreIndependent]_vars

\* an add on a clone succeeded and the source still returns what it did
C22_Witness ==
  /\ Len(registries) = 2
  /\ registrySource[2] = 1
  /\ registryCall = Call("add", 2, Some("b"))
  /\ registryError = Undefined
  /\ AllOf(1) = <<[id |-> "a", order |-> 2]>>
  /\ AllOf(2) = <<[id |-> "b", order |-> 1], [id |-> "a", order |-> 2]>>

\* a removeById on the source of a clone removed a doc view the clone still
\* returns
C22_WitnessSourceChanged ==
  /\ Len(registries) = 2
  /\ registrySource[2] = 1
  /\ registryCall = Call("removeById", 1, Some("a"))
  /\ AllOf(1) = <<>>
  /\ AllOf(2) = <<[id |-> "a", order |-> 2]>>

\* the monitors of pages 1 to n of the database that pass the status filter
RECURSIVE FilteredUpTo(_)
FilteredUpTo(n) ==
  IF n = 0 THEN <<>>
  ELSE FilteredUpTo(n - 1)
       \o GetMonitorBuckets(
            [i \in DOMAIN database[n] |->
               [key |-> <<n, i>>, status |-> database[n][i]]],
            statusFilter)

\* the first query is given null, every later one the after key the query
\* before it returned, and the queries fetch the pages of the database one
\* after the other
PagesInSequence ==
  /\ \A k \in DOMAIN queries :
       queries[k].searchAfter = IF k = 1 THEN Null ELSE queries[k - 1].afterKey
  /\ Len(queries) <= Len(database)
  /\ monitors = FilteredUpTo(Len(queries))
  /\ \A k \in DOMAIN queries : queries[k].length = Len(FilteredUpTo(k))

\* a query is followed by another exactly if its after key is not null and
\* fewer than LEGACY_STATES_QUERY_SIZE monitors have accumulated
StopsExactly ==
  /\ \A k \in DOMAIN queries :
       (k < Len(queries) \/ statesPc = "query")
         <=> /\ queries[k].afterKey # Null
             /\ queries[k].length < LEGACY_STATES_QUERY_SIZE

\* a call that has left its loop has issued a query, and what it returns has
\* one summary for every monitor accumulated
ReturnsAllAccumulated ==
  /\ statesPc \in {"summaries", "returned"} => queries # <<>>
  /\ statesPc = "returned" =>
       /\ Len(The(summaries)) = Len(monitors)
       /\ \A i \in DOMAIN monitors :
            The(summaries)[i].monitor_id = monitors[i].key

\* C23: legacyGetMonitorStates pages sequentially: it issues at least one
\* states query, passes each later query the after key of the page before,
\* and stops exactly after the first page whose after key is null or that
\* brings the accumulated, status-filtered monitors to
\* LEGACY_STATES_QUERY_SIZE or more; with a database that returns a null
\* after key at last the loop terminates; the result is not truncated
C23_PagesSequentially ==
  /\ [](PagesInSequence /\ StopsExactly /\ ReturnsAllAccumulated)
  /\ (statesPc = "query" ~> statesPc = "returned")

\* a call returned more than LEGACY_STATES_QUERY_SIZE summaries after two
\* queries, the second of which was given the after key of the first
C23_Witness ==
  /\ statesPc = "returned"
  /\ Len(queries) = 2
  /\ queries[2].searchAfter = Some(1)
  /\ queries[1].length < LEGACY_STATES_QUERY_SIZE
  /\ Len(The(summaries)) > LEGACY_STATES_QUERY_SIZE

\* a call stopped after its first query, whose after key was not null,
\* because enough monitors had passed the filter
C23_WitnessEnoughMonitors ==
  /\ statesPc = "returned"
  /\ Len(queries) = 1
  /\ queries[1].afterKey # Null
  /\ statusFilter # Undefined
  /\ Len(monitors) = LEGACY_STATES_QUERY_SIZE

\* the greatest timestamp among the documents of a key in a set of documents
LatestOf(docs, agentIdIP) ==
  MaxTs({CurCheck(doc) : doc \in {d \in docs : AgentIdIP(d) = agentIdIP}})

\* on every shard the check stored under a key has the latest timestamp of
\* the documents of that key visited there
MapKeepsLatest ==
  \A shard \in 1..MaxShards :
    \A agentIdIP \in DOMAIN states[shard] :
      states[shard][agentIdIP].timestamp = LatestOf(mapped[shard], agentIdIP)

\* the check reduce_script keeps for a key has the latest timestamp of the
\* documents of that key visited on any shard
ReduceKeepsLatest ==
  reduced # Undefined =>
    \A agentIdIP \in DOMAIN The(reduced).checks :
      The(reduced).checks[agentIdIP].timestamp
        = LatestOf(UNION {mapped[shard] : shard \in 1..MaxShards}, agentIdIP)

\* C24: for each agent-id/IP key the check kept is the one with the latest
\* timestamp among all documents of that key, in whatever order they are
\* visited: in the map phase an older document never replaces the check
\* stored for its key, and the reduce phase keeps the newer check per key
\* across shard states
C24_LatestCheckKept == MapKeepsLatest /\ ReduceKeepsLatest

\* the effect calls finishedChecks at most once, and finished says whether
\* it has
StartedAtMostOnce ==
  /\ sequences <= 1
  /\ finished <=> sequences = 1

\* finishedChecks calls loadData(100) FINISHED_CHECKS + 1 times in all: one
\* timer is pending while calls are still to come, and none afterwards
SixCallsThenNone ==
  /\ sequences = 0 => finalCalls = 0 /\ timers = {}
  /\ finalCalls <= FINISHED_CHECKS + 1
  /\ Cardinality(timers) <= 1
  /\ \A t \in timers : finalCalls + t.counter + 1 = FINISHED_CHECKS + 1
  /\ sequences = 1 /\ timers = {} => finalCalls = FINISHED_CHECKS + 1

\* the finished checks begin at progress 100 with no load in flight, and
\* every later one of their calls is made by a timer that has waited two
\* seconds
SpacedByTimers ==
  lastLoadData # Undefined /\ The(lastLoadData).progress = 100 =>
    LET call == The(lastLoadData)
    IN /\ call.by = "effect" => call.inFlight = 0
       /\ call.by = "timer" => The(call.waited) >= 2 * 1000

\* before completion loadData is called with a progress between 1 and 100,
\* with no load in flight, and with a progress more than PROGRESS_INCREMENT
\* above that of the last started load
LoadsBeforeCompletion ==
  lastLoadData # Undefined /\ The(lastLoadData).progress # 100 =>
    LET call == The(lastLoadData)
    IN /\ call.by = "effect"
       /\ call.progress > 1 /\ call.progress < 100
       /\ call.inFlight = 0
       /\ call.progress - call.since > PROGRESS_INCREMENT

\* C25: once the upload progress is 100 and no load is in flight the final
\* refresh sequence is started at most once per chart, calls loadData(100)
\* exactly FINISHED_CHECKS + 1 = 6 times spaced by 2-second timers and then
\* stops scheduling; before completion a load is started only when no load
\* is in flight and the progress exceeds that of the last started load by
\* more than PROGRESS_INCREMENT
C25_FinishedChecksOnce ==
  /\ [](StartedAtMostOnce /\ SixCallsThenNone /\ SpacedByTimers
          /\ LoadsBeforeCompletion)
  /\ (sequences = 1 ~> (finalCalls = FINISHED_CHECKS + 1 /\ timers = {}))

\* the finished checks have made their last call, from a timer, after loads
\* at progress 7 and 13
C25_Witness ==
  /\ finalCalls = FINISHED_CHECKS + 1
  /\ timers = {}
  /\ lastLoadData # Undefined
  /\ The(lastLoadData).by = "timer"
  /\ The(lastLoadData).started
  /\ The(lastLoadData).since = 100
  /\ previousProgress = 13

\* a load was started at progress 13, the last one having started at 7
C25_WitnessBeforeCompletion ==
  /\ lastLoadData # Undefined
  /\ The(lastLoadData).progress = 13
  /\ The(lastLoadData).started
  /\ The(lastLoadData).since = 7
  /\ inFlight = 1
====
